---- MODULE Spec2Model ----
(***************************************************************************)
(* Webhook registry of shopify-api-js: the handler table and the inbound   *)
(* webhook processing pipeline (WebhooksRegistry.process).                 *)
(*                                                                         *)
(* Strings are sequences of one-character strings, so that normalisation   *)
(* and digest comparison are computed character by character.  A value     *)
(* that a JavaScript variable may lack is Undefined.                       *)
(***************************************************************************)
EXTENDS Integers, Sequences, FiniteSets, TLC

\* ---------------------------------------------------------------- bounds

\* Largest number of entries the handler table holds in the model.
MaxHandlers == 2

\* Length of a digest in characters (44 for base64 SHA-256 in the program).
DigestLen == 2

\* ------------------------------------------------------------ value sets

Undefined == <<"undefined">>

\* Topic strings an application or a delivery may use.
TopicStrings ==
  { <<"o", "/", "c">>, <<"O", "_", "C">>, <<"p", "/", "u">>, <<"P", "_", "U">> }

Paths == { "/webhooks", "/hooks" }

\* Application callbacks.
Handlers == { "h1", "h2" }

Bodies == { <<"x">>, <<"y">> }

Domains == { <<"s">> }

Secrets == { <<"k">>, <<"q">> }

DigestChars == { "a", "b" }

RECURSIVE SeqsUpTo(_, _)
SeqsUpTo(S, n) ==
  IF n = 0 THEN { <<>> }
  ELSE LET shorter == SeqsUpTo(S, n - 1)
       IN  shorter \cup { Append(s, c) : s \in { t \in shorter : Len(t) = n - 1 }, c \in S }

\* What a value of the signature header may be.
ReceivedDigests == SeqsUpTo(DigestChars, DigestLen)

\* ------------------------------------------------------------- constants

Ok == 200
BadRequest == 400
Forbidden == 403
InternalServerError == 500

HmacHeader == "X-Shopify-Hmac-Sha256"
TopicHeader == "X-Shopify-Topic"
DomainHeader == "X-Shopify-Shop-Domain"

\* ---------------------------------------------------------------- errors

NoError == [name |-> "none", message |-> "", args |-> <<>>]

InvalidWebhookError(message, args) ==
  [name |-> "InvalidWebhookError", message |-> message, args |-> args]

NoBodyMessage == "No body was received when processing webhook"
MissingHeadersMessage ==
  "Missing one or more of the required HTTP headers to process webhooks"
NoWebhookMessage == "No webhook is registered for topic"
CouldNotValidateMessage == "Could not validate request for topic"

\* Values an application handler may throw or reject with: Error objects, and
\* the falsy value undefined (throw undefined, Promise.reject()).
ErrorObjects ==
  { [name |-> "Error", message |-> m, args |-> <<>>] : m \in { "E1", "E2" } }
ThrownUndefined == [name |-> "undefined", message |-> "", args |-> <<>>]
ThrownValues == ErrorObjects \cup { ThrownUndefined }

\* JavaScript truthiness of a caught value.
Truthy(v) == v # NoError /\ v # ThrownUndefined

\* !x for an optional string: undefined and the empty string are falsy.
Falsy(x) == x = Undefined \/ x = <<>>

\* -------------------------------------------------------- pure functions

\* String.prototype.toUpperCase on the characters topics are made of.
UpperChar(c) ==
  CASE c = "o" -> "O"
    [] c = "c" -> "C"
    [] c = "p" -> "P"
    [] c = "u" -> "U"
    [] OTHER -> c

ToUpperCase(s) == [i \in 1..Len(s) |-> UpperChar(s[i])]

\* replace(/\//g, '_')
ReplaceSlashes(s) == [i \in 1..Len(s) |-> IF s[i] = "/" THEN "_" ELSE s[i]]

\* The key process looks a topic header up under.
GraphqlTopic(topic) == ReplaceSlashes(ToUpperCase(topic))

CharCode(c) ==
  CASE c = "x" -> 1
    [] c = "y" -> 2
    [] c = "k" -> 1
    [] c = "q" -> 3
    [] OTHER -> 0

RECURSIVE SumCodes(_)
SumCodes(s) == IF s = <<>> THEN 0 ELSE CharCode(Head(s)) + SumCodes(Tail(s))

RECURSIVE Pow2(_)
Pow2(n) == IF n = 0 THEN 1 ELSE 2 * Pow2(n - 1)

\* The encoding of a digest value as DigestLen characters.
EncodeDigest(h) ==
  [i \in 1..DigestLen |-> IF (h \div Pow2(i - 1)) % 2 = 0 THEN "a" ELSE "b"]

\* A keyed digest of the body: a function of the secret and of the raw body,
\* encoded as a string of DigestLen characters.
createSHA256HMAC(secret, body) ==
  EncodeDigest((SumCodes(secret) + SumCodes(body)) % Pow2(DigestLen))

\* Comparison of two strings over their whole length: strings of different
\* lengths differ, strings of one length are equal when no position differs.
safeCompare(strA, strB) ==
  /\ Len(strA) = Len(strB)
  /\ { i \in 1..Len(strA) : strA[i] # strB[i] } = {}

\* MissingHeaders as it would be if the checks were chained with else: only the
\* first missing header is reported.
MissingHeaders_FirstOnly(hmac, topic, domain) ==
  IF Falsy(hmac) THEN << HmacHeader >>
  ELSE IF Falsy(topic) THEN << TopicHeader >>
  ELSE IF Falsy(domain) THEN << DomainHeader >>
  ELSE << >>

\* The missing required headers, in the order Hmac, Topic, Domain.
MissingHeaders(hmac, topic, domain) ==
  (IF Falsy(hmac) THEN << HmacHeader >> ELSE <<>>)
    \o (IF Falsy(topic) THEN << TopicHeader >> ELSE <<>>)
    \o (IF Falsy(domain) THEN << DomainHeader >> ELSE <<>>)

\* ---------------------------------------------------- registration values

Http == "http"
EventBridge == "eventbridge"
PubSub == "pubsub"
DeliveryMethods == { Http, EventBridge, PubSub }

\* ApiVersion in release order; July21 is the first to know Pub/Sub.
ApiVersions == << "2021-04", "2021-07" >>
April21 == ApiVersions[1]
July21 == ApiVersions[2]

\* Context.HOST_NAME
HOST_NAME == "host"

\* The topics and paths register is called with.
RegTopics == { << "O", "_", "C" >>, << "P", "_", "U" >>, << "o", "/", "c" >> }
RegPaths == { "/webhooks", "pubsub://p:t" }

\* A path as the string of its parts, so that an address built from it can be
\* compared and a Pub/Sub address taken apart.
Parts(path) ==
  IF path = "pubsub://p:t" THEN << "pubsub://", "p", ":", "t" >> ELSE << path >>

UnsupportedClientType ==
  [ name |-> "UnsupportedClientType",
    message |-> "Pub/Sub webhooks are not supported in API version",
    args |-> <<>> ]

\* What the transport rejects a request with.
HttpRequestError == [name |-> "HttpRequestError", message |-> "failed", args |-> <<>>]

\* ShopifyUtilities.versionCompatible(referenceVersion): the configured version
\* is the reference version or a later one.
versionCompatible(referenceVersion, configured) ==
  \E i, j \in 1..Len(ApiVersions) :
    ApiVersions[i] = referenceVersion /\ ApiVersions[j] = configured /\ i <= j

versionSupportsPubSub(configured) == versionCompatible(July21, configured)

\* validateDeliveryMethod without its version check.
validateDeliveryMethod_NoGate(deliveryMethod, configured) == NoError

\* The error validateDeliveryMethod throws, NoError when it returns.
validateDeliveryMethod(deliveryMethod, configured) ==
  IF deliveryMethod = PubSub /\ ~versionSupportsPubSub(configured)
  THEN UnsupportedClientType
  ELSE NoError

\* The check query document, by what it asks for.
buildCheckQuery(topic, configured) ==
  [ field |-> "webhookSubscriptions", topics |-> topic,
    pubSubFields |-> versionSupportsPubSub(configured) ]

\* address.replace(/^pubsub:\/\//, '')
StripPubSubScheme(address) ==
  IF address # <<>> /\ Head(address) = "pubsub://" THEN Tail(address) ELSE address

\* The part of a string before its first ':' (the whole string without one).
RECURSIVE BeforeColon(_)
BeforeColon(s) ==
  IF s = <<>> \/ Head(s) = ":" THEN <<>> ELSE << Head(s) >> \o BeforeColon(Tail(s))

\* The rest of a string after its first ':'; Undefined when there is none.
RECURSIVE AfterColon(_)
AfterColon(s) ==
  IF s = <<>> THEN Undefined
  ELSE IF Head(s) = ":" THEN Tail(s) ELSE AfterColon(Tail(s))

\* [pubSubProject, pubSubTopic] = address.replace(...).split(':')
PubSubParts(address) ==
  LET rest == AfterColon(StripPubSubScheme(address))
  IN  [ pubSubProject |-> BeforeColon(StripPubSubScheme(address)),
        pubSubTopic |-> IF rest = Undefined THEN Undefined ELSE BeforeColon(rest) ]

NoArgs ==
  [ callbackUrl |-> Undefined, arn |-> Undefined,
    pubSubProject |-> Undefined, pubSubTopic |-> Undefined ]

\* MutationPrefix with every delivery method given the Http mutations.
MutationPrefix_HttpOnly(deliveryMethod) ==
  CASE deliveryMethod = Http -> "webhookSubscription"
    [] deliveryMethod = EventBridge -> "webhookSubscription"
    [] deliveryMethod = PubSub -> "webhookSubscription"

MutationPrefix(deliveryMethod) ==
  CASE deliveryMethod = Http -> "webhookSubscription"
    [] deliveryMethod = EventBridge -> "eventBridgeWebhookSubscription"
    [] deliveryMethod = PubSub -> "pubSubWebhookSubscription"

\* buildQuery without its webhookId: every mutation creates.
buildQuery_AlwaysCreate(topic, address, deliveryMethod, webhookId) ==
  [ mutationName |->
      MutationPrefix(deliveryMethod)
        \o "Create",
    identifier |->
      [key |-> "topic", value |-> topic],
    webhookSubscription |->
      CASE deliveryMethod = Http -> [NoArgs EXCEPT !.callbackUrl = address]
        [] deliveryMethod = EventBridge -> [NoArgs EXCEPT !.arn = address]
        [] deliveryMethod = PubSub ->
             [NoArgs EXCEPT !.pubSubProject = PubSubParts(address).pubSubProject,
                            !.pubSubTopic = PubSubParts(address).pubSubTopic] ]

\* The mutation document, by its mutation name, the identifier it carries and
\* its webhookSubscription argument. webhookId is Undefined when not passed.
buildQuery(topic, address, deliveryMethod, webhookId) ==
  [ mutationName |->
      MutationPrefix(deliveryMethod)
        \o (IF Falsy(webhookId) THEN "Create" ELSE "Update"),
    identifier |->
      IF Falsy(webhookId) THEN [key |-> "topic", value |-> topic]
                          ELSE [key |-> "id", value |-> webhookId],
    webhookSubscription |->
      CASE deliveryMethod = Http -> [NoArgs EXCEPT !.callbackUrl = address]
        [] deliveryMethod = EventBridge -> [NoArgs EXCEPT !.arn = address]
        [] deliveryMethod = PubSub ->
             [NoArgs EXCEPT !.pubSubProject = PubSubParts(address).pubSubProject,
                            !.pubSubTopic = PubSubParts(address).pubSubTopic] ]

\* A null webhookSubscription in a mutation's response.
NullSubscription == [id |-> Undefined]

\* isSuccess reading the Create mutation's key whatever mutation was issued.
isSuccess_CreateKey(result, deliveryMethod, webhookId) ==
  IF deliveryMethod \notin DeliveryMethods THEN FALSE
  ELSE LET endpoint == MutationPrefix(deliveryMethod) \o "Create"
       IN  /\ endpoint \in DOMAIN result.data
           /\ result.data[endpoint].webhookSubscription # NullSubscription

\* The result isSuccess reads off a mutation's response body.
isSuccess(result, deliveryMethod, webhookId) ==
  IF deliveryMethod \notin DeliveryMethods THEN FALSE
  ELSE LET endpoint == MutationPrefix(deliveryMethod)
                         \o (IF Falsy(webhookId) THEN "Create" ELSE "Update")
       IN  /\ endpoint \in DOMAIN result.data
           /\ result.data[endpoint].webhookSubscription # NullSubscription

\* ------------------------------------------------------------- the remote

\* The remote names the subscriptions of a topic in the order it creates them.
Ordinals == << "1", "2" >>

NewId(topic, subs) == << "gid", Ordinals[Len(subs) + 1] >> \o topic

\* The endpoint a mutation writes: its arguments under the endpoint type of the
\* mutation.
EndpointOf(doc) ==
  [ typename |->
      CASE doc.mutationName \in { "webhookSubscriptionCreate",
                                  "webhookSubscriptionUpdate" } ->
             "WebhookHttpEndpoint"
        [] doc.mutationName \in { "eventBridgeWebhookSubscriptionCreate",
                                  "eventBridgeWebhookSubscriptionUpdate" } ->
             "WebhookEventBridgeEndpoint"
        [] OTHER -> "WebhookPubSubEndpoint" ] @@ doc.webhookSubscription

\* The subscription a mutation is about exists (update) or may be made (create).
CanApply(subs, doc) ==
  IF doc.identifier.key = "topic"
  THEN Len(subs) < Len(Ordinals)
  ELSE \E i \in 1..Len(subs) : subs[i].id = doc.identifier.value

AppliedId(subs, topic, doc) ==
  IF doc.identifier.key = "topic" THEN NewId(topic, subs) ELSE doc.identifier.value

\* The subscriptions of a topic after the remote applied a mutation.
Apply(subs, topic, doc) ==
  IF doc.identifier.key = "topic"
  THEN Append(subs, [id |-> NewId(topic, subs), endpoint |-> EndpointOf(doc)])
  ELSE [ i \in 1..Len(subs) |->
           IF subs[i].id = doc.identifier.value
           THEN [subs[i] EXCEPT !.endpoint = EndpointOf(doc)]
           ELSE subs[i] ]

\* data.<mutationName>.{userErrors, webhookSubscription}; subscription is null
\* when the remote refused.
MutationBody(doc, subscription) ==
  [ data |->
      doc.mutationName :>
        [ userErrors |-> IF subscription = NullSubscription THEN << "refused" >> ELSE <<>>,
          webhookSubscription |-> subscription ] ]

\* data.webhookSubscriptions.edges: the first subscription of the topic, with
\* the Pub/Sub fields only when the query asks for them.
CheckBody(subs, doc) ==
  [ data |->
      [ webhookSubscriptions |->
          [ edges |->
              IF subs = <<>> THEN <<>>
              ELSE << [ node |->
                          IF doc.pubSubFields THEN Head(subs)
                          ELSE [ Head(subs) EXCEPT
                                   !.endpoint.pubSubProject = Undefined,
                                   !.endpoint.pubSubTopic = Undefined ] ] >> ] ] ]

QueryRequest(topic, doc) == [kind |-> "query", topic |-> topic, data |-> doc]
MutationRequest(topic, doc) == [kind |-> "mutation", topic |-> topic, data |-> doc]

NoSubscriptions == [t \in RegTopics |-> <<>>]

\* A subscription made before the program ran: Http, to /webhooks on this host.
Existing(topic) ==
  [ id |-> << "gid", Ordinals[1] >> \o topic,
    endpoint |->
      [ typename |-> "WebhookHttpEndpoint" ]
        @@ [NoArgs EXCEPT !.callbackUrl = << "https://", HOST_NAME, "/webhooks" >>] ]

\* The remote states a behaviour may start in.
InitialRemotes ==
  { [t \in RegTopics |-> IF t \in S THEN << Existing(t) >> ELSE <<>>] :
      S \in SUBSET RegTopics }

\* register's registerReturn[topic] when nothing had to be written
Skipped == [success |-> TRUE, result |-> << >>]

NoOptions == [path |-> "", topic |-> <<>>, deliveryMethod |-> Http]

\* No register or registerAll call is under way. checkResult holds the edges of
\* the check query's response.
NoRegistration ==
  [ op |-> "none", pc |-> "idle", options |-> NoOptions, address |-> <<>>,
    checkResult |-> << >>, webhookId |-> Undefined,
    registerReturn |-> << >>, topics |-> << >>,
    index |-> 0, allReturn |-> << >>, error |-> NoError ]

NoPrevious == [reg |-> NoRegistration, sent |-> << >>]

\* No second register call has been made: its frame, the requests it has in
\* flight and the requests it has issued.
NoConcurrent == [reg |-> NoRegistration, net |-> { }, sent |-> << >>]

\* ----------------------------------------------------- REST client values

\* The tries and retries options go up to MaxTries, and a behaviour makes up
\* to MaxRequests REST requests.
MaxTries == 2
MaxRequests == 3

\* Method of admin-api-client, and a Method of @shopify/network that
\* RestClient.request has no case for.
Methods == { "GET", "POST", "PUT", "DELETE" }
Patch == "PATCH"

\* An option that is not passed is << >>, one that is passed is << value >>.
NotPassed == << >>
Passed(v) == << v >>

\* The statuses the shop answers with.
Statuses == { 200, 404, 429, 500, 503 }

RETRIABLE_STATUS_CODES == { 429, 503 }

Quote == "\""

\* A URL is the sequence of its parts: origin, the parts of the path, and
\* after "?" the search parameters as key, "=", value, separated by "&".
PageUrl(search) ==
  << "https://host", "/admin/api/", "unstable", "/", "fake_resources", ".json" >>
    \o search

PageInfoParam(token) == << "?", "page_info", "=", token >>

\* <url>; rel="rel"
Link(url, rel) == << "<" >> \o url \o << ">; rel=", Quote, rel, Quote >>

NextOnly == Link(PageUrl(PageInfoParam("nextToken")), "next")
PrevOnly == Link(PageUrl(PageInfoParam("previousToken")), "previous")

\* The values of the Link header of a response: empty, the links of a page in
\* the middle, at the start and at the end of a listing, a next link with a
\* fields parameter, a next link without page_info, a link of another relation
\* and a link without its rel.
LinkValues ==
  { << >>,
    NextOnly,
    PrevOnly,
    PrevOnly \o << ", " >> \o NextOnly,
    Link(PageUrl(<< "?", "fields", "=", "id", "&", "page_info", "=", "nextToken" >>),
         "next"),
    Link(PageUrl(<< >>), "next"),
    Link(PageUrl(PageInfoParam("lastToken")), "last"),
    << "<" >> \o PageUrl(PageInfoParam("nextToken")) \o << ">" >> }

\* response.headers.get('Link'): null when the response has no such header.
NoLink == [present |-> FALSE, value |-> << >>]
LinkHeaders == { NoLink } \cup { [present |-> TRUE, value |-> v] : v \in LinkValues }

\* The responses fetch resolves with; the listing's links come with a 200.
RestResponses ==
  { r \in [status : Statuses, link : LinkHeaders] : r.status # 200 => r.link = NoLink }

\* httpFetch's `response` while it is undefined.
NoResponse == [status |-> 0, link |-> NoLink]

\* Response.ok
ok(response) == response.status \in 200..299

\* How a fetch call settles: it throws (the request was abandoned) or resolves
\* with a response.
Abandoned == [threw |-> TRUE, response |-> NoResponse]
Answered(response) == [threw |-> FALSE, response |-> response]

\* What fetch throws when the request is abandoned.
FetchError == [name |-> "TypeError", message |-> "fetch failed", args |-> << >>]

\* The client's name, imported from ../constants.
CLIENT == "CLIENT"

\* Messages are sequences of parts. formatErrorMessage puts the client's name
\* in front of a message that does not start with it.
formatErrorMessage(message) ==
  IF Len(message) > 0 /\ message[1] = CLIENT THEN message
  ELSE << CLIENT, ": " >> \o message

\* getErrorMessage of a caught Error: its message.
getErrorMessage(error) == << error.message >>

\* The Error httpFetch throws after its last attempt: the number of retries is
\* in the message when maxRetries > 0.
RetriesError(maxRetries, error) ==
  [ name |-> "Error",
    message |->
      formatErrorMessage(
        (IF maxRetries > 0
         THEN << "Attempted maximum number of ", ToString(maxRetries),
                 " network retries. Last message - " >>
         ELSE << >>) \o getErrorMessage(error)),
    args |-> << >> ]

InvalidRequestError ==
  [name |-> "InvalidRequestError", message |-> "Unsupported request method", args |-> << >>]

\* throwFailedRequest(body, response, false): it never returns.
throwFailedRequest(response) ==
  [name |-> "HttpResponseError", message |-> "Received an error response", args |-> << >>]

\* The least index of a part in a string, 0 when it has none.
IndexOf(s, part) ==
  IF \E i \in DOMAIN s : s[i] = part
  THEN CHOOSE i \in DOMAIN s : s[i] = part /\ \A j \in 1..(i - 1) : s[j] # part
  ELSE 0

\* link.split(', ')
RECURSIVE Split(_)
Split(s) ==
  IF IndexOf(s, ", ") = 0 THEN << s >>
  ELSE << SubSeq(s, 1, IndexOf(s, ", ") - 1) >>
         \o Split(SubSeq(s, IndexOf(s, ", ") + 1, Len(s)))

NoMatch == [matched |-> FALSE, url |-> << >>, rel |-> ""]

\* link.match(/<([^<]+)>; rel="([^"]+)"/): the leftmost match, its first group
\* as long as can be.
LINK_HEADER_REGEXP(link) ==
  LET ends(i) ==
        { k \in (i + 1)..(Len(link) - 4) :
            /\ \A j \in (i + 1)..k : link[j] # "<"
            /\ link[k + 1] = ">; rel="
            /\ link[k + 2] = Quote
            /\ link[k + 3] # Quote
            /\ link[k + 4] = Quote }
      starts == { i \in DOMAIN link : link[i] = "<" /\ ends(i) # { } }
  IN  IF starts = { } THEN NoMatch
      ELSE LET i == CHOOSE i \in starts : \A j \in starts : i <= j
               k == CHOOSE k \in ends(i) : \A j \in ends(i) : j <= k
           IN  [matched |-> TRUE, url |-> SubSeq(link, i + 1, k), rel |-> link[k + 3]]

\* new URL(url).searchParams: the entries after "?", in order.
SearchParams(url) ==
  IF IndexOf(url, "?") = 0 THEN << >>
  ELSE LET search == SubSeq(url, IndexOf(url, "?") + 1, Len(url))
       IN  [ n \in 1..((Len(search) + 1) \div 4) |->
               [key |-> search[4 * n - 3], value |-> search[4 * n - 1]] ]

\* searchParams.get(name): the first value of the name, << >> for null.
SearchParamsGet(params, name) ==
  IF \E n \in DOMAIN params : params[n].key = name
  THEN << params[CHOOSE n \in DOMAIN params :
                   /\ params[n].key = name
                   /\ \A m \in 1..(n - 1) : params[m].key # name].value >>
  ELSE << >>

\* A value of searchParams.get that is neither null nor ''.
TruthyParam(v) == v # << >> /\ v # << "" >>

\* url.pathname
Pathname(url) ==
  SubSeq(url, 2, IF IndexOf(url, "?") = 0 THEN Len(url) ELSE IndexOf(url, "?") - 1)

\* The page's path without /admin/api/<version>/ and .json, and its search
\* parameters as an object.
buildRequestParams(newPageUrl) ==
  LET pathname == Pathname(newPageUrl)
      params == SearchParams(newPageUrl)
      keys == { params[n].key : n \in DOMAIN params }
  IN  [ path |->
          IF /\ Len(pathname) >= 5
             /\ pathname[1] = "/admin/api/"
             /\ pathname[3] = "/"
             /\ pathname[Len(pathname)] = ".json"
          THEN SubSeq(pathname, 4, Len(pathname) - 1)
          ELSE pathname,
        query |->
          [ key \in keys |->
              params[CHOOSE n \in DOMAIN params :
                       /\ params[n].key = key
                       /\ \A m \in DOMAIN params : params[m].key = key => m <= n].value ] ]

DEFAULT_LIMIT == "50"

\* A pageInfo member that is not set.
NoPage == [path |-> << >>, query |-> << >>]

\* const pageInfo = {limit: ...} of a request without a limit in its query
NewPageInfo ==
  [ limit |-> DEFAULT_LIMIT, fields |-> << >>,
    previousPageUrl |-> Undefined, prevPage |-> NoPage,
    nextPageUrl |-> Undefined, nextPage |-> NoPage ]

\* readLinks leaving the loop after the first link.
readLinks_FirstLinkOnly(links, pageInfo) ==
  IF links = << >> THEN pageInfo
  ELSE LET parsedLink == LINK_HEADER_REGEXP(Head(links))
           params == SearchParams(parsedLink.url)
           linkFields == SearchParamsGet(params, "fields")
           linkPageToken == SearchParamsGet(params, "page_info")
           withFields ==
             IF pageInfo.fields = << >> /\ TruthyParam(linkFields)
             THEN [pageInfo EXCEPT !.fields = linkFields]
             ELSE pageInfo
       IN  IF ~parsedLink.matched THEN pageInfo
           ELSE IF TruthyParam(linkPageToken) /\ parsedLink.rel = "previous"
           THEN [withFields EXCEPT
                   !.previousPageUrl = parsedLink.url,
                   !.prevPage = buildRequestParams(parsedLink.url)]
           ELSE IF TruthyParam(linkPageToken) /\ parsedLink.rel = "next"
           THEN [withFields EXCEPT
                   !.nextPageUrl = parsedLink.url,
                   !.nextPage = buildRequestParams(parsedLink.url)]
           ELSE withFields

\* The loop over the links of the Link header.
RECURSIVE readLinks(_, _)
readLinks(links, pageInfo) ==
  IF links = << >> THEN pageInfo
  ELSE LET parsedLink == LINK_HEADER_REGEXP(Head(links))
           params == SearchParams(parsedLink.url)
           linkFields == SearchParamsGet(params, "fields")
           linkPageToken == SearchParamsGet(params, "page_info")
           withFields ==
             IF pageInfo.fields = << >> /\ TruthyParam(linkFields)
             THEN [pageInfo EXCEPT !.fields = linkFields]
             ELSE pageInfo
       IN  IF ~parsedLink.matched THEN readLinks(Tail(links), pageInfo)
           ELSE IF TruthyParam(linkPageToken) /\ parsedLink.rel = "previous"
           THEN readLinks(Tail(links),
                          [withFields EXCEPT
                             !.previousPageUrl = parsedLink.url,
                             !.prevPage = buildRequestParams(parsedLink.url)])
           ELSE IF TruthyParam(linkPageToken) /\ parsedLink.rel = "next"
           THEN readLinks(Tail(links),
                          [withFields EXCEPT
                             !.nextPageUrl = parsedLink.url,
                             !.nextPage = buildRequestParams(parsedLink.url)])
           ELSE readLinks(Tail(links), withFields)

\* The page info RestClient.request reads off the Link header: made whenever
\* the header is not undefined, which get() never returns, and filled from the
\* links when the header is not empty.
readPageInfo(link) ==
  IF link.present /\ link.value # << >>
  THEN readLinks(Split(link.value), NewPageInfo)
  ELSE NewPageInfo

\* response.text() and JSON.parse of it.
ResponseText(response) == IF ok(response) THEN "{}" ELSE "{\"errors\":\"Not Found\"}"
JSONParse(text) == << "object", text >>

\* RestRequestReturn, and the lack of one.
NoReturn == [body |-> Undefined, headers |-> NoLink, pageInfo |-> NewPageInfo]

\* No REST request is under way.
NoRest ==
  [ op |-> "none", pc |-> "idle", method |-> "GET", clientRetries |-> 0,
    retries |-> NotPassed, tries |-> NotPassed, count |-> 0, maxRetries |-> 0,
    response |-> NoResponse, requestReturn |-> NoReturn, error |-> NoError ]

\* ------------------------------------------------- token exchange values

\* enum RequestedTokenType
OnlineAccessToken == "urn:shopify:params:oauth:token-type:online-access-token"
OfflineAccessToken == "urn:shopify:params:oauth:token-type:offline-access-token"
RequestedTokenTypes == { OnlineAccessToken, OfflineAccessToken }

TokenExchangeGrantType == "urn:ietf:params:oauth:grant-type:token-exchange"
IdTokenType == "urn:ietf:params:oauth:token-type:id_token"

\* DataType.JSON
DataTypeJSON == "application/json"

\* config.apiKey
apiKey == "key"

\* The session tokens and shops tokenExchange is called with.
SessionTokens == { "jwt1", "jwt2" }
ExchangeShops == { "shop1.myshopify.com", "shop2.myshopify.com", "not a shop" }

\* What a call that does not return its value throws.
InvalidJwtError == [name |-> "InvalidJwtError", message |-> "invalid", args |-> << >>]
InvalidShopError == [name |-> "InvalidShopError", message |-> "invalid", args |-> << >>]
FetchRejected == [name |-> "FetchError", message |-> "failed", args |-> << >>]
JsonRejected == [name |-> "SyntaxError", message |-> "not JSON", args |-> << >>]

\* sanitizeShop(config)(shop, true): the shop's domain, or a throw for a
\* string that is not a shop domain.
sanitizeShop(shop) ==
  IF shop \in { "shop1.myshopify.com", "shop2.myshopify.com" }
  THEN [threw |-> FALSE, value |-> shop]
  ELSE [threw |-> TRUE, value |-> InvalidShopError]

\* An object literal is the sequence of its properties, << key, value >> each.
\* JSON.stringify writes them in that order.
RECURSIVE Members(_)
Members(object) ==
  IF object = << >> THEN << >>
  ELSE << object[1][1], ":", object[1][2] >>
         \o (IF Len(object) > 1 THEN << "," >> ELSE << >>)
         \o Members(Tail(object))

JSONStringify(object) == << "{" >> \o Members(object) \o << "}" >>

\* The body tokenExchange posts.
ExchangeBody(secret, sessionToken, requestedTokenType) ==
  << << "client_id", apiKey >>,
     << "client_secret", secret >>,
     << "grant_type", TokenExchangeGrantType >>,
     << "subject_token", sessionToken >>,
     << "subject_token_type", IdTokenType >>,
     << "requested_token_type", requestedTokenType >> >>

\* The arguments of the abstractFetch call: the url and the RequestInit, which
\* has a body and headers.
ExchangeRequest(cleanShop, body) ==
  [ url |-> << "https://", cleanShop, "/admin/oauth/access_token" >>,
    init |-> [ body |-> JSONStringify(body),
               headers |-> [ContentType |-> DataTypeJSON, Accept |-> DataTypeJSON] ] ]

\* The method fetch makes a request with: the RequestInit's, GET without one.
FetchMethod(init) == IF "method" \in DOMAIN init THEN init.method ELSE "GET"

\* The bodies an access-token response may carry.
AccessTokenResponses == { "token1", "token2" }

\* createSession({accessTokenResponse, shop, state: '', config})
createSession(accessTokenResponse, shop) ==
  [accessTokenResponse |-> accessTokenResponse, shop |-> shop, state |-> ""]

\* No tokenExchange call is under way.
NoExchange ==
  [ pc |-> "idle", shop |-> "", sessionToken |-> "", requestedTokenType |-> "",
    cleanShop |-> "", decoded |-> FALSE, error |-> NoError, session |-> << >> ]

\* ----------------------------------------------------------------- state

Null == [path |-> "null", webhookHandler |-> "null"]

Entries == [path : Paths, webhookHandler : Handlers]

Requests ==
  [ body : { Undefined, <<>> } \cup Bodies,
    hmac : { Undefined } \cup ReceivedDigests,
    topic : { Undefined, <<>> } \cup TopicStrings,
    domain : { Undefined, <<>> } \cup Domains ]

NoRequest ==
  [body |-> Undefined, hmac |-> Undefined, topic |-> Undefined, domain |-> Undefined]

\* The response object as the caller supplies it.
FreshResponse == [statusCode |-> 0, headers |-> "unset"]

Pending == [state |-> "pending", reason |-> NoError]
Resolved == [state |-> "resolved", reason |-> NoError]
Rejected(error) == [state |-> "rejected", reason |-> error]

NotSettled == [state |-> "none", value |-> NoError]
Fulfilled == [state |-> "fulfilled", value |-> NoError]
Threw(v) == [state |-> "rejected", value |-> v]

VARIABLES
  webhookRegistry,  \* WebhooksRegistry.webhookRegistry: topic key -> entry
  apiSecretKey,     \* Context.API_SECRET_KEY
  pc,               \* where the process call stands
  request,          \* the request process was called with
  response,         \* the caller's response object
  outcome,          \* the promise process returned
  webhookEntry,     \* process's local webhookEntry
  calls,            \* the handler invocations of this process call, in order
  hashCalls,        \* createSHA256HMAC calls of this process call
  lookups,          \* getHandler calls of this process call
  settled           \* how the invoked handler settled

VARIABLES
  lastAdd,          \* per topic, the entry of the most recent add (history)
  apiVersion,       \* Context.API_VERSION
  remote,           \* the shop's webhook subscriptions, per topic
  reg,              \* the register / registerAll call under way
  net,              \* the network requests in flight
  sent,             \* the requests the call under way has issued, in order
  previous,         \* what the call before the one under way did (history)
  registrations     \* register / registerAll calls made so far

VARIABLES
  rest,             \* the REST request under way
  fetches,          \* how the fetch calls of the request under way settled
  observed          \* what the callers of the requests made so far got (history)

VARIABLES
  concurrent        \* a register call made while the call in reg is suspended

VARIABLES
  exchange,         \* the tokenExchange call under way
  posted,           \* the abstractFetch calls of the call under way, in order
  sessions          \* the sessions the call under way has created

regVars ==
  << apiVersion, remote, reg, net, sent, previous, registrations, concurrent >>

restVars == << rest, fetches, observed >>

tokenVars == << exchange, posted, sessions >>

vars ==
  << webhookRegistry, apiSecretKey, pc, request, response, outcome,
     webhookEntry, calls, hashCalls, lookups, settled, lastAdd, regVars,
     restVars, tokenVars >>

processVars ==
  << pc, request, response, outcome, webhookEntry, calls, hashCalls, lookups,
     settled >>

Init ==
  /\ webhookRegistry = << >>
  /\ apiSecretKey \in Secrets
  /\ pc = "idle"
  /\ request = NoRequest
  /\ response = FreshResponse
  /\ outcome = Pending
  /\ webhookEntry = Null
  /\ calls = << >>
  /\ hashCalls = 0
  /\ lookups = 0
  /\ settled = NotSettled
  /\ lastAdd = << >>
  /\ apiVersion = July21
  /\ remote = NoSubscriptions
  /\ reg = NoRegistration
  /\ net = { }
  /\ sent = << >>
  /\ previous = NoPrevious
  /\ registrations = 0
  /\ concurrent = NoConcurrent
  /\ exchange = NoExchange
  /\ posted = << >>
  /\ sessions = << >>
  /\ rest = NoRest
  /\ fetches = << >>
  /\ observed = << >>

\* ---------------------------------------------------------- handler table

getHandler(registry, topic) ==
  IF topic \in DOMAIN registry THEN registry[topic] ELSE Null

getTopics(registry) == DOMAIN registry

\* addHandler that keeps the entry a topic already has.
addHandler_KeepsFirst(registry, topic, entry) ==
  [t \in (DOMAIN registry) \cup { topic } |->
     IF t \in DOMAIN registry THEN registry[t] ELSE entry]

\* webhookRegistry[topic] = {path, webhookHandler}
addHandler(registry, topic, entry) ==
  [t \in (DOMAIN registry) \cup { topic } |->
     IF t = topic THEN entry ELSE registry[t]]

AddHandler ==
  /\ pc \in { "idle", "awaitHash", "awaitHandler" }
  /\ \E topic \in TopicStrings, entry \in Entries :
       /\ topic \in DOMAIN webhookRegistry
            \/ Cardinality(DOMAIN webhookRegistry) < MaxHandlers
       /\ webhookRegistry' = addHandler(webhookRegistry, topic, entry)
       /\ lastAdd' = (topic :> entry) @@ lastAdd
  /\ UNCHANGED << apiSecretKey, processVars, regVars, restVars, tokenVars >>

\* addHandlers: addHandler for every topic of the mapping passed in.
RECURSIVE addHandlers(_, _)
addHandlers(registry, handlers) ==
  IF DOMAIN handlers = { } THEN registry
  ELSE LET topic == CHOOSE t \in DOMAIN handlers : TRUE
       IN  addHandlers(addHandler(registry, topic, handlers[topic]),
                       [t \in DOMAIN handlers \ { topic } |-> handlers[t]])

\* isWebhookPath's loop over the keys still to look at.
RECURSIVE PathAmong(_, _, _)
PathAmong(registry, keys, path) ==
  IF keys = { } THEN FALSE
  ELSE LET key == CHOOSE k \in keys : TRUE
       IN  IF registry[key].path = path THEN TRUE
           ELSE PathAmong(registry, keys \ { key }, path)

\* isWebhookPath that gives up after the first key.
isWebhookPath_FirstKeyOnly(registry, path) ==
  /\ DOMAIN registry # { }
  /\ registry[CHOOSE k \in DOMAIN registry : TRUE].path = path

isWebhookPath(registry, path) == PathAmong(registry, DOMAIN registry, path)

\* ---------------------------------------------------------------- process

\* What a stretch of process between two awaits yields: where the call stands
\* next, the status and error it ends with (when next = "done"), the entry it
\* looked up and the number of digest computations and lookups it made.
StepResult(next, statusCode, error, entry, hashes, looks) ==
  [ next |-> next, statusCode |-> statusCode, error |-> error, entry |-> entry,
    hashes |-> hashes, looks |-> looks ]

\* StartResult as it would be with the header check placed before the body
\* check.
StartResult_HeadersBeforeBody(req) ==
  LET missingHeaders == MissingHeaders(req.hmac, req.topic, req.domain)
  IN  IF Len(missingHeaders) > 0
      THEN StepResult("done", BadRequest,
                      InvalidWebhookError(MissingHeadersMessage, missingHeaders),
                      Null, 0, 0)
      ELSE IF Falsy(req.body)
           THEN StepResult("done", BadRequest,
                           InvalidWebhookError(NoBodyMessage, <<>>), Null, 0, 0)
           ELSE StepResult("awaitHash", 0, NoError, Null, 1, 0)

\* StartResult as it would be if the digest were computed whether or not the
\* required headers are there, the header check being left to the comparison.
StartResult_NoHeaderCheck(req) ==
  IF Falsy(req.body)
  THEN StepResult("done", BadRequest, InvalidWebhookError(NoBodyMessage, <<>>),
                  Null, 0, 0)
  ELSE StepResult("awaitHash", 0, NoError, Null, 1, 0)

\* process from its call to its first await: the body check, then the header
\* check, then the call of createSHA256HMAC.
StartResult(req) ==
  IF Falsy(req.body)
  THEN StepResult("done", BadRequest, InvalidWebhookError(NoBodyMessage, <<>>),
                  Null, 0, 0)
  ELSE LET missingHeaders == MissingHeaders(req.hmac, req.topic, req.domain)
       IN  IF Len(missingHeaders) > 0
           THEN StepResult("done", BadRequest,
                           InvalidWebhookError(MissingHeadersMessage, missingHeaders),
                           Null, 0, 0)
           ELSE StepResult("awaitHash", 0, NoError, Null, 1, 0)

\* HashResult as it would be if a registered handler were dispatched to before
\* the signature is looked at.
HashResult_DispatchBeforeSignature(req, registry, secret) ==
  LET generatedHash == createSHA256HMAC(secret, req.body)
      graphqlTopic == GraphqlTopic(req.topic)
      entry == getHandler(registry, graphqlTopic)
  IN  IF entry # Null
      THEN StepResult("awaitHandler", 0, NoError, entry, 0, 1)
      ELSE IF safeCompare(generatedHash, req.hmac)
           THEN StepResult("done", Forbidden,
                           InvalidWebhookError(NoWebhookMessage, req.topic),
                           Null, 0, 1)
           ELSE StepResult("done", Forbidden,
                           InvalidWebhookError(CouldNotValidateMessage, req.topic),
                           Null, 0, 0)

\* HashResult as it would be if the handler were looked up under the topic
\* header as received, without normalisation.
HashResult_RawTopicLookup(req, registry, secret) ==
  LET generatedHash == createSHA256HMAC(secret, req.body)
  IN  IF safeCompare(generatedHash, req.hmac)
      THEN LET entry == getHandler(registry, req.topic)
           IN  IF entry # Null
               THEN StepResult("awaitHandler", 0, NoError, entry, 0, 1)
               ELSE StepResult("done", Forbidden,
                               InvalidWebhookError(NoWebhookMessage, req.topic),
                               Null, 0, 1)
      ELSE StepResult("done", Forbidden,
                      InvalidWebhookError(CouldNotValidateMessage, req.topic),
                      Null, 0, 0)

\* HashResult as it would be if only the characters the received digest has
\* were compared (generatedHash.startsWith(hmac)).
HashResult_PrefixCompare(req, registry, secret) ==
  LET generatedHash == createSHA256HMAC(secret, req.body)
      n == IF Len(req.hmac) < Len(generatedHash) THEN Len(req.hmac)
           ELSE Len(generatedHash)
  IN  IF safeCompare(SubSeq(generatedHash, 1, n), req.hmac)
      THEN LET graphqlTopic == GraphqlTopic(req.topic)
               entry == getHandler(registry, graphqlTopic)
           IN  IF entry # Null
               THEN StepResult("awaitHandler", 0, NoError, entry, 0, 1)
               ELSE StepResult("done", Forbidden,
                               InvalidWebhookError(NoWebhookMessage, req.topic),
                               Null, 0, 1)
      ELSE StepResult("done", Forbidden,
                      InvalidWebhookError(CouldNotValidateMessage, req.topic),
                      Null, 0, 0)

\* HashResult as it would be if an unregistered topic were answered with 404.
HashResult_NotFound(req, registry, secret) ==
  LET generatedHash == createSHA256HMAC(secret, req.body)
  IN  IF safeCompare(generatedHash, req.hmac)
      THEN LET graphqlTopic == GraphqlTopic(req.topic)
               entry == getHandler(registry, graphqlTopic)
           IN  IF entry # Null
               THEN StepResult("awaitHandler", 0, NoError, entry, 0, 1)
               ELSE StepResult("done", 404,
                               InvalidWebhookError(NoWebhookMessage, req.topic),
                               Null, 0, 1)
      ELSE StepResult("done", Forbidden,
                      InvalidWebhookError(CouldNotValidateMessage, req.topic),
                      Null, 0, 0)

\* HashResult as it would be if the handler lookup came first and the signature
\* were compared only for a registered topic.
HashResult_LookupBeforeSignature(req, registry, secret) ==
  LET generatedHash == createSHA256HMAC(secret, req.body)
      graphqlTopic == GraphqlTopic(req.topic)
      entry == getHandler(registry, graphqlTopic)
  IN  IF entry = Null
      THEN StepResult("done", Forbidden,
                      InvalidWebhookError(NoWebhookMessage, req.topic), Null, 0, 0)
      ELSE IF safeCompare(generatedHash, req.hmac)
           THEN StepResult("awaitHandler", 0, NoError, entry, 0, 1)
           ELSE StepResult("done", Forbidden,
                           InvalidWebhookError(CouldNotValidateMessage, req.topic),
                           Null, 0, 0)

\* process from the digest's arrival on: the comparison, the normalisation of
\* the topic, the lookup, and either the handler's invocation or a 403.
HashResult(req, registry, secret) ==
  LET generatedHash == createSHA256HMAC(secret, req.body)
  IN  IF safeCompare(generatedHash, req.hmac)
      THEN LET graphqlTopic == GraphqlTopic(req.topic)
               entry == getHandler(registry, graphqlTopic)
           IN  IF entry # Null
               THEN StepResult("awaitHandler", 0, NoError, entry, 0, 1)
               ELSE StepResult("done", Forbidden,
                               InvalidWebhookError(NoWebhookMessage, req.topic),
                               Null, 0, 1)
      ELSE StepResult("done", Forbidden,
                      InvalidWebhookError(CouldNotValidateMessage, req.topic),
                      Null, 0, 0)

\* webhookHandler called with the topic header as it was received.
HandlerCall_RawTopic(entry, req) ==
  [ handler |-> entry.webhookHandler,
    topic |-> req.topic,
    shop_domain |-> req.domain,
    body |-> req.body ]

\* The arguments webhookHandler is called with.
HandlerCall(entry, req) ==
  [ handler |-> entry.webhookHandler,
    topic |-> GraphqlTopic(req.topic),
    shop_domain |-> req.domain,
    body |-> req.body ]

\* The try/catch around the handler: 200 when it completes, 500 and the caught
\* value when it throws or rejects.
SettleResult(how) ==
  IF how.state = "fulfilled"
  THEN StepResult("done", Ok, NoError, Null, 0, 0)
  ELSE StepResult("done", InternalServerError, how.value, Null, 0, 0)

\* The promise process returns once it has ended with responseError.
ProcessOutcome(responseError) ==
  IF Truthy(responseError) THEN Rejected(responseError) ELSE Resolved

ProcessStart ==
  /\ pc = "idle"
  /\ \E req \in Requests :
       LET r == StartResult(req)
       IN  /\ request' = req
           /\ pc' = r.next
           /\ hashCalls' = hashCalls + r.hashes
           /\ IF r.next = "done"
              THEN \* an early throw: the status code is set, the headers are not
                   /\ response' = [response EXCEPT !.statusCode = r.statusCode]
                   /\ outcome' = Rejected(r.error)
              ELSE UNCHANGED << response, outcome >>
  /\ UNCHANGED << lastAdd, regVars, restVars, tokenVars, webhookRegistry,
                  apiSecretKey, webhookEntry, calls, lookups, settled >>

ProcessAfterHash ==
  /\ pc = "awaitHash"
  /\ LET r == HashResult(request, webhookRegistry, apiSecretKey)
     IN  /\ pc' = r.next
         /\ lookups' = lookups + r.looks
         /\ webhookEntry' = r.entry
         /\ IF r.next = "awaitHandler"
            THEN /\ calls' = Append(calls, HandlerCall(r.entry, request))
                 /\ UNCHANGED << response, outcome >>
            ELSE /\ response' = [statusCode |-> r.statusCode, headers |-> "empty"]
                 /\ outcome' = ProcessOutcome(r.error)
                 /\ calls' = calls
  /\ UNCHANGED << lastAdd, regVars, restVars, tokenVars, webhookRegistry, apiSecretKey, request,
                  hashCalls, settled >>

\* The handler has settled: the catch block if it threw, then lines 398-402.
Settle(how) ==
  /\ settled' = how
  /\ LET r == SettleResult(how)
     IN  /\ pc' = r.next
         /\ response' = [statusCode |-> r.statusCode, headers |-> "empty"]
         /\ outcome' = ProcessOutcome(r.error)
  /\ UNCHANGED << lastAdd, regVars, restVars, tokenVars, webhookRegistry, apiSecretKey, request,
                  webhookEntry, calls, hashCalls, lookups >>

\* The invoked handler completes without error.
HandlerResolves ==
  /\ pc = "awaitHandler"
  /\ Settle(Fulfilled)

\* The invoked handler throws or rejects.
HandlerThrows ==
  /\ pc = "awaitHandler"
  /\ \E error \in ThrownValues : Settle(Threw(error))

\* The caller has the outcome; the next call gets a fresh response object.
ProcessReturn ==
  /\ pc = "done"
  /\ pc' = "idle"
  /\ request' = NoRequest
  /\ response' = FreshResponse
  /\ outcome' = Pending
  /\ webhookEntry' = Null
  /\ calls' = << >>
  /\ hashCalls' = 0
  /\ lookups' = 0
  /\ settled' = NotSettled
  /\ UNCHANGED << lastAdd, regVars, restVars, tokenVars, webhookRegistry, apiSecretKey >>

\* ----------------------------------------------------------- registration

\* register / registerAll calls made in one behaviour.
MaxRegistrations == 2

\* The orders Object.keys may list a set of keys in.
Orders(S) ==
  { s \in [1..Cardinality(S) -> S] : \A i, j \in DOMAIN s : s[i] = s[j] => i = j }

\* What a stretch of register / registerAll between two awaits yields: the
\* call's frame and the requests it hands to the transport.
RegStep(frame, send) == [reg |-> frame, send |-> send]

\* register sending a creating mutation along with its check query, without
\* waiting for the check query's response.
registerStart_MutatesUnchecked(frame, options, configured) ==
  LET error == validateDeliveryMethod(options.deliveryMethod, configured)
      address == IF options.deliveryMethod = Http
                 THEN << "https://", HOST_NAME >> \o Parts(options.path)
                 ELSE Parts(options.path)
  IN  IF error # NoError
      THEN RegStep([frame EXCEPT !.pc = "rejected", !.options = options,
                                 !.error = error], << >>)
      ELSE RegStep([frame EXCEPT !.pc = "awaitCheck", !.options = options,
                                 !.address = address, !.checkResult = << >>,
                                 !.webhookId = Undefined,
                                 !.registerReturn = << >>],
                   << QueryRequest(options.topic,
                                   buildCheckQuery(options.topic, configured)),
                      MutationRequest(options.topic,
                                      buildQuery(options.topic, address,
                                                 options.deliveryMethod,
                                                 Undefined)) >>)

\* register from its call to `await client.query({data: buildCheckQuery(topic)})`
registerStart(frame, options, configured) ==
  LET error == validateDeliveryMethod(options.deliveryMethod, configured)
      address == IF options.deliveryMethod = Http
                 THEN << "https://", HOST_NAME >> \o Parts(options.path)
                 ELSE Parts(options.path)
  IN  IF error # NoError
      THEN RegStep([frame EXCEPT !.pc = "rejected", !.options = options,
                                 !.error = error], << >>)
      ELSE RegStep([frame EXCEPT !.pc = "awaitCheck", !.options = options,
                                 !.address = address, !.checkResult = << >>,
                                 !.webhookId = Undefined,
                                 !.registerReturn = << >>],
                   << QueryRequest(options.topic,
                                   buildCheckQuery(options.topic, configured)) >>)

\* registerAll's loop without its await: register is called for every topic
\* left before any of the calls has returned.
registerAllLoop_AllAtOnce(frame, registry, configured) ==
  IF frame.index > Len(frame.topics)
  THEN RegStep([frame EXCEPT !.pc = "returned"], << >>)
  ELSE LET start(i) ==
             registerStart(frame,
                           [ path |-> getHandler(registry, frame.topics[i]).path,
                             topic |-> frame.topics[i],
                             deliveryMethod |-> frame.options.deliveryMethod ],
                           configured)
       IN  RegStep(start(frame.index).reg,
                   start(frame.index).send
                     \o [ i \in 1..(Len(frame.topics) - frame.index) |->
                            QueryRequest(frame.topics[frame.index + i],
                                         buildCheckQuery(frame.topics[frame.index + i],
                                                         configured)) ])

\* registerAll's loop from topics[index] to the next await, or to its return.
RECURSIVE registerAllLoop(_, _, _)
registerAllLoop(frame, registry, configured) ==
  IF frame.index > Len(frame.topics)
  THEN RegStep([frame EXCEPT !.pc = "returned"], << >>)
  ELSE LET topic == frame.topics[frame.index]
           handler == getHandler(registry, topic)
       IN  IF handler = Null
           THEN registerAllLoop([frame EXCEPT !.index = @ + 1], registry, configured)
           ELSE registerStart(frame,
                              [ path |-> handler.path, topic |-> topic,
                                deliveryMethod |-> frame.options.deliveryMethod ],
                              configured)

\* registerReturns with registerAll keeping only the mapping register returned
\* last.
registerReturns_KeepsLast(frame, registerReturn, registry, configured) ==
  IF frame.op = "register"
  THEN RegStep([frame EXCEPT !.pc = "returned",
                             !.registerReturn = registerReturn], << >>)
  ELSE registerAllLoop([frame EXCEPT !.registerReturn = registerReturn,
                                     !.allReturn = registerReturn,
                                     !.index = @ + 1],
                       registry, configured)

\* registerReturns with registerAll's loop staying on the topic it has just
\* registered.
registerReturns_RepeatsTopic(frame, registerReturn, registry, configured) ==
  IF frame.op = "register"
  THEN RegStep([frame EXCEPT !.pc = "returned",
                             !.registerReturn = registerReturn], << >>)
  ELSE registerAllLoop([frame EXCEPT !.registerReturn = registerReturn,
                                     !.allReturn = registerReturn @@ @],
                       registry, configured)

\* registerReturns with registerAll listing the table's topics again before
\* every topic it goes on to.
registerReturns_ListsAgain(frame, registerReturn, registry, configured) ==
  IF frame.op = "register"
  THEN RegStep([frame EXCEPT !.pc = "returned",
                             !.registerReturn = registerReturn], << >>)
  ELSE LET listed == { frame.topics[i] : i \in 1..Len(frame.topics) }
           added == CHOOSE order \in Orders(getTopics(registry) \ listed) : TRUE
       IN  registerAllLoop([frame EXCEPT !.registerReturn = registerReturn,
                                         !.allReturn = registerReturn @@ @,
                                         !.topics = @ \o added,
                                         !.index = @ + 1],
                           registry, configured)

\* register returns registerReturn: to its caller, or into registerAll's loop,
\* which merges it and goes on with the next topic.
registerReturns(frame, registerReturn, registry, configured) ==
  IF frame.op = "register"
  THEN RegStep([frame EXCEPT !.pc = "returned",
                             !.registerReturn = registerReturn], << >>)
  ELSE registerAllLoop([frame EXCEPT !.registerReturn = registerReturn,
                                     !.allReturn = registerReturn @@ @,
                                     !.index = @ + 1],
                       registry, configured)

\* register from the check query's response to the mutation's await or to its
\* return.
registerAfterCheck(frame, body, registry, configured) ==
  LET edges == body.data.webhookSubscriptions.edges
      endpoint == edges[1].node.endpoint
      endpointAddress ==
        IF endpoint.typename = "WebhookHttpEndpoint" THEN endpoint.callbackUrl
        ELSE IF endpoint.typename = "WebhookEventBridgeEndpoint" THEN endpoint.arn
        ELSE << >>
      webhookId == IF Len(edges) > 0 THEN edges[1].node.id ELSE Undefined
      mustRegister == Len(edges) = 0 \/ endpointAddress # frame.address
  IN  IF mustRegister
      THEN RegStep([frame EXCEPT !.pc = "awaitMutation", !.checkResult = edges,
                                 !.webhookId = webhookId],
                   << MutationRequest(frame.options.topic,
                                      buildQuery(frame.options.topic, frame.address,
                                                 frame.options.deliveryMethod,
                                                 webhookId)) >>)
      ELSE registerReturns([frame EXCEPT !.checkResult = edges,
                                         !.webhookId = webhookId],
                           frame.options.topic :> Skipped, registry, configured)

\* register from the mutation's response to its return.
registerAfterMutation(frame, body, registry, configured) ==
  registerReturns(frame,
                  frame.options.topic :>
                    [ success |-> isSuccess(body, frame.options.deliveryMethod,
                                            frame.webhookId),
                      result |-> body ],
                  registry, configured)

RegisterOptions == [path : RegPaths, topic : RegTopics, deliveryMethod : DeliveryMethods]

nonRegVars ==
  << webhookRegistry, lastAdd, apiSecretKey, processVars, restVars, tokenVars >>

\* The call goes on as the step says; the requests answered leave the network
\* and the requests sent enter it.
Advance(step, answered) ==
  /\ reg' = step.reg
  /\ net' = (net \ answered) \cup { step.send[i] : i \in 1..Len(step.send) }
  /\ sent' = sent \o step.send

\* The application adds a handler for a topic it will register.
AddHandlerToRegister ==
  /\ reg.pc \in { "idle", "awaitCheck", "awaitMutation" }
  /\ \E topic \in RegTopics, path \in Paths :
       LET entry == [path |-> path, webhookHandler |-> "h1"]
       IN  /\ webhookRegistry' = addHandler(webhookRegistry, topic, entry)
           /\ lastAdd' = (topic :> entry) @@ lastAdd
  /\ UNCHANGED << apiSecretKey, processVars, regVars, restVars, tokenVars >>

\* The mappings addHandlers is called with before registration.
HandlerMaps ==
  UNION { [D -> [path : Paths, webhookHandler : { "h1" }]] : D \in SUBSET RegTopics }

AddHandlers ==
  /\ reg.pc \in { "idle", "awaitCheck", "awaitMutation" }
  /\ \E handlers \in HandlerMaps :
       /\ webhookRegistry' = addHandlers(webhookRegistry, handlers)
       /\ lastAdd' = handlers @@ lastAdd
  /\ UNCHANGED << apiSecretKey, processVars, regVars, restVars, tokenVars >>

\* The deliveries process is called with at startup.
RegRequests ==
  { r \in Requests :
      /\ r.body \in { Undefined, << "x" >> }
      /\ r.hmac # Undefined /\ Len(r.hmac) = DigestLen
      /\ r.topic = << "o", "/", "c" >>
      /\ r.domain = << "s" >> }

RegisterCall ==
  /\ reg.pc = "idle"
  /\ registrations < MaxRegistrations
  /\ registrations' = registrations + 1
  /\ \E options \in RegisterOptions :
       Advance(registerStart([NoRegistration EXCEPT !.op = "register"],
                             options, apiVersion), { })
  /\ UNCHANGED << nonRegVars, concurrent, apiVersion, remote, previous >>

\* registerAll taking the topics out of the table as it lists them.
RegisterAllCall_EmptiesTable ==
  /\ reg.pc = "idle"
  /\ registrations < MaxRegistrations
  /\ registrations' = registrations + 1
  /\ \E deliveryMethod \in DeliveryMethods,
        topics \in Orders(getTopics(webhookRegistry)) :
       Advance(registerAllLoop([NoRegistration EXCEPT
                                  !.op = "registerAll", !.topics = topics,
                                  !.index = 1,
                                  !.options.deliveryMethod = deliveryMethod],
                               webhookRegistry, apiVersion), { })
  /\ webhookRegistry' = << >>
  /\ UNCHANGED << lastAdd, apiSecretKey, processVars, restVars, tokenVars, concurrent,
                  apiVersion, remote, previous >>

RegisterAllCall ==
  /\ reg.pc = "idle"
  /\ registrations < MaxRegistrations
  /\ registrations' = registrations + 1
  /\ \E deliveryMethod \in DeliveryMethods,
        topics \in Orders(getTopics(webhookRegistry)) :
       Advance(registerAllLoop([NoRegistration EXCEPT
                                  !.op = "registerAll", !.topics = topics,
                                  !.index = 1,
                                  !.options.deliveryMethod = deliveryMethod],
                               webhookRegistry, apiVersion), { })
  /\ UNCHANGED << nonRegVars, concurrent, apiVersion, remote, previous >>

\* The remote answers the check query.
CheckResponds ==
  /\ reg.pc = "awaitCheck"
  /\ \E req \in net :
       /\ req.kind = "query"
       /\ Advance(registerAfterCheck(reg, CheckBody(remote[req.topic], req.data),
                                     webhookRegistry, apiVersion), { req })
  /\ UNCHANGED << nonRegVars, concurrent, apiVersion, remote, previous, registrations >>

\* The remote applies the mutation, or refuses it with userErrors, and answers.
MutationResponds ==
  /\ reg.pc = "awaitMutation"
  /\ \E req \in net, accepted \in BOOLEAN :
       /\ req.kind = "mutation"
       /\ accepted => CanApply(remote[req.topic], req.data)
       /\ remote' = IF accepted
                    THEN [remote EXCEPT ![req.topic] = Apply(@, req.topic, req.data)]
                    ELSE remote
       /\ Advance(registerAfterMutation(
                    reg,
                    MutationBody(req.data,
                                 IF accepted
                                 THEN [id |-> AppliedId(remote[req.topic],
                                                        req.topic, req.data)]
                                 ELSE NullSubscription),
                    webhookRegistry, apiVersion), { req })
  /\ UNCHANGED << nonRegVars, concurrent, apiVersion, previous, registrations >>

\* The transport rejects the request the call waits for: the await throws and
\* nothing catches it.
Rejects(kind) ==
  \E req \in net :
    /\ req.kind = kind
    /\ Advance(RegStep([reg EXCEPT !.pc = "rejected", !.error = HttpRequestError],
                       << >>), { req })

CheckFails ==
  /\ reg.pc = "awaitCheck"
  /\ Rejects("query")
  /\ UNCHANGED << nonRegVars, concurrent, apiVersion, remote, previous, registrations >>

\* MutationFails with register catching the rejection and reporting the topic
\* as not registered.
MutationFails_ReportsFailure ==
  /\ reg.pc = "awaitMutation"
  /\ \E req \in net :
       /\ req.kind = "mutation"
       /\ Advance(registerReturns(reg,
                                  reg.options.topic :>
                                    [success |-> FALSE, result |-> << >>],
                                  webhookRegistry, apiVersion), { req })
  /\ UNCHANGED << nonRegVars, concurrent, apiVersion, remote, previous, registrations >>

MutationFails ==
  /\ reg.pc = "awaitMutation"
  /\ Rejects("mutation")
  /\ UNCHANGED << nonRegVars, concurrent, apiVersion, remote, previous, registrations >>

\* The caller has the call's outcome.
RegistrationReturn ==
  /\ reg.pc \in { "returned", "rejected" }
  /\ previous' = [reg |-> reg, sent |-> sent]
  /\ reg' = NoRegistration
  /\ sent' = << >>
  /\ UNCHANGED << nonRegVars, concurrent, apiVersion, remote, net, registrations >>

\* The second call goes on as the step says, on its own requests.
AdvanceConcurrent(step, answered) ==
  concurrent' =
    [ reg |-> step.reg,
      net |-> (concurrent.net \ answered)
                \cup { step.send[i] : i \in 1..Len(step.send) },
      sent |-> concurrent.sent \o step.send ]

\* register waiting for the call under way to end before it sends anything.
ConcurrentRegisterCall_Queued ==
  /\ reg.pc \in { "awaitCheck", "awaitMutation" }
  /\ concurrent.reg.pc = "idle"
  /\ registrations < MaxRegistrations
  /\ registrations' = registrations + 1
  /\ \E options \in RegisterOptions :
       concurrent' = [concurrent EXCEPT
                        !.reg = [NoRegistration EXCEPT !.op = "register",
                                                       !.pc = "queued",
                                                       !.options = options]]
  /\ UNCHANGED << nonRegVars, apiVersion, remote, reg, net, sent, previous >>

\* The application calls register while the call in reg is suspended on a
\* network call: the new call runs to its own first await.
ConcurrentRegisterCall ==
  /\ reg.pc \in { "awaitCheck", "awaitMutation" }
  /\ concurrent.reg.pc = "idle"
  /\ registrations < MaxRegistrations
  /\ registrations' = registrations + 1
  /\ \E options \in RegisterOptions :
       AdvanceConcurrent(registerStart([NoRegistration EXCEPT !.op = "register"],
                                       options, apiVersion), { })
  /\ UNCHANGED << nonRegVars, apiVersion, remote, reg, net, sent, previous >>

\* The remote answers the second call's check query.
ConcurrentCheckResponds ==
  /\ concurrent.reg.pc = "awaitCheck"
  /\ \E req \in concurrent.net :
       /\ req.kind = "query"
       /\ AdvanceConcurrent(registerAfterCheck(concurrent.reg,
                                               CheckBody(remote[req.topic], req.data),
                                               webhookRegistry, apiVersion),
                            { req })
  /\ UNCHANGED << nonRegVars, apiVersion, remote, reg, net, sent, previous,
                  registrations >>

\* The remote applies the second call's mutation, or refuses it, and answers.
ConcurrentMutationResponds ==
  /\ concurrent.reg.pc = "awaitMutation"
  /\ \E req \in concurrent.net, accepted \in BOOLEAN :
       /\ req.kind = "mutation"
       /\ accepted => CanApply(remote[req.topic], req.data)
       /\ remote' = IF accepted
                    THEN [remote EXCEPT ![req.topic] = Apply(@, req.topic, req.data)]
                    ELSE remote
       /\ AdvanceConcurrent(registerAfterMutation(
                              concurrent.reg,
                              MutationBody(req.data,
                                           IF accepted
                                           THEN [id |-> AppliedId(remote[req.topic],
                                                                  req.topic, req.data)]
                                           ELSE NullSubscription),
                              webhookRegistry, apiVersion), { req })
  /\ UNCHANGED << nonRegVars, apiVersion, reg, net, sent, previous, registrations >>

\* The transport rejects the request the second call waits for.
ConcurrentFails ==
  /\ concurrent.reg.pc \in { "awaitCheck", "awaitMutation" }
  /\ \E req \in concurrent.net :
       AdvanceConcurrent(RegStep([concurrent.reg EXCEPT !.pc = "rejected",
                                                        !.error = HttpRequestError],
                                 << >>), { req })
  /\ UNCHANGED << nonRegVars, apiVersion, remote, reg, net, sent, previous,
                  registrations >>

RegInit ==
  /\ webhookRegistry = << >>
  /\ apiSecretKey = << "k" >>
  /\ pc = "idle"
  /\ request = NoRequest
  /\ response = FreshResponse
  /\ outcome = Pending
  /\ webhookEntry = Null
  /\ calls = << >>
  /\ hashCalls = 0
  /\ lookups = 0
  /\ settled = NotSettled
  /\ lastAdd = << >>
  /\ apiVersion \in { April21, July21 }
  /\ remote \in InitialRemotes
  /\ reg = NoRegistration
  /\ net = { }
  /\ sent = << >>
  /\ previous = NoPrevious
  /\ registrations = 0
  /\ concurrent = NoConcurrent
  /\ exchange = NoExchange
  /\ posted = << >>
  /\ sessions = << >>
  /\ rest = NoRest
  /\ fetches = << >>
  /\ observed = << >>

\* Handlers are added and deliveries processed at startup; then the
\* application makes one registration call, register or registerAll.
RegNext ==
  \/ registrations = 0 /\ reg.pc = "idle" /\ pc # "done" /\ AddHandlerToRegister
  \/ registrations = 0 /\ reg.pc = "idle" /\ pc # "done" /\ AddHandlers
  \/ registrations = 0 /\ reg.pc = "idle" /\ ProcessStart /\ request' \in RegRequests
  \/ ProcessAfterHash
  \/ HandlerResolves
  \/ HandlerThrows
  \/ ProcessReturn
  \/ registrations = 0 /\ pc = "idle" /\ RegisterCall
  \/ registrations = 0 /\ pc = "idle" /\ RegisterAllCall
  \/ CheckResponds
  \/ MutationResponds
  \/ CheckFails
  \/ MutationFails
  \/ RegistrationReturn

RegSpec == RegInit /\ [][RegNext]_vars

\* RegSpec with a transport whose every call settles: the request a call waits
\* on is answered or rejected.
FairRegSpec ==
  /\ RegSpec
  /\ WF_vars(CheckResponds \/ CheckFails)
  /\ WF_vars(MutationResponds \/ MutationFails)

\* The application makes register calls one after the other.
TwiceNext ==
  \/ RegisterCall
  \/ CheckResponds
  \/ MutationResponds
  \/ CheckFails
  \/ MutationFails
  \/ RegistrationReturn

TwiceSpec == RegInit /\ [][TwiceNext]_vars

\* The application calls register and, while that call is suspended, calls
\* register again for the same topic.
PairNext ==
  \/ registrations = 0 /\ RegisterCall
  \/ ConcurrentRegisterCall /\ concurrent'.reg.options.topic = reg.options.topic
  \/ CheckResponds
  \/ MutationResponds
  \/ CheckFails
  \/ MutationFails
  \/ RegistrationReturn
  \/ ConcurrentCheckResponds
  \/ ConcurrentMutationResponds
  \/ ConcurrentFails

PairSpec == RegInit /\ [][PairNext]_vars

\* Handlers are added under /webhooks at startup; the application calls
\* registerAll and, while the call is suspended on a network call, adds
\* handlers: for new topics and, under either path, for topics it has.
LateAddNext ==
  \/ /\ registrations = 0 /\ reg.pc = "idle"
     /\ AddHandlers
     /\ \A t \in DOMAIN webhookRegistry' : webhookRegistry'[t].path = "/webhooks"
  \/ registrations = 0 /\ RegisterAllCall
  \/ reg.pc \in { "awaitCheck", "awaitMutation" } /\ AddHandlerToRegister
  \/ CheckResponds
  \/ MutationResponds
  \/ CheckFails
  \/ MutationFails
  \/ RegistrationReturn

LateAddSpec == RegInit /\ [][LateAddNext]_vars

Next ==
  \/ AddHandler
  \/ ProcessStart
  \/ ProcessAfterHash
  \/ HandlerResolves
  \/ HandlerThrows
  \/ ProcessReturn

Spec == Init /\ [][Next]_vars

\* The awaited digest arrives, and a handler that settles is resumed from.
FairSpec ==
  /\ Spec
  /\ WF_vars(ProcessAfterHash)
  /\ WF_vars(HandlerResolves \/ HandlerThrows)

\* Every handler table of at most MaxHandlers entries.
Tables ==
  UNION { [D -> Entries] :
            D \in { S \in SUBSET TopicStrings : Cardinality(S) <= MaxHandlers } }

TypeOK ==
  /\ webhookRegistry \in Tables
  /\ apiSecretKey \in Secrets
  /\ pc \in { "idle", "awaitHash", "awaitHandler", "done" }
  /\ request \in Requests
  /\ outcome.state \in { "pending", "resolved", "rejected" }

\* ----------------------------------------------------------- REST client

RetriesOptions == { NotPassed } \cup { Passed(r) : r \in 0..MaxTries }
TriesOptions == { NotPassed } \cup { Passed(n) : n \in 0..MaxTries }

\* httpFetch from its call to `await fetchApi(...requestParams)`.
httpFetch(frame, count, maxRetries) ==
  [frame EXCEPT !.pc = "awaitFetch", !.count = count, !.maxRetries = maxRetries,
                !.response = NoResponse]

\* The request function of the client createAdminRestApiClient returns: its
\* retries parameter defaults to 0, so `retries ?? clientRetries` is retries.
clientRequest(frame, method, retries) ==
  LET given == IF retries = NotPassed THEN 0 ELSE retries[1]
  IN  httpFetch([frame EXCEPT !.method = method, !.retries = retries],
                1, given + 1)

\* RestClient.request from its call to `await this.client.<method>(...)`.
restRequest(frame, method, tries) ==
  LET retries == IF tries # NotPassed /\ tries[1] # 0
                 THEN Passed(tries[1] - 1)
                 ELSE NotPassed
  IN  IF method \in Methods
      THEN clientRequest([frame EXCEPT !.op = "RestClient", !.tries = tries],
                         method, retries)
      ELSE [frame EXCEPT !.op = "RestClient", !.tries = tries, !.method = method,
                         !.pc = "rejected", !.error = InvalidRequestError]

\* httpFetch returns the response: to the caller of the client, or to
\* RestClient.request, which goes on to `await response.text()`.
returnResponse(frame, fetched) ==
  [frame EXCEPT !.pc = IF frame.op = "client" THEN "returned" ELSE "awaitText",
                !.response = fetched]

\* httpFetchSettled fetching again on every server error, 500 included.
httpFetchSettled_RetriesServerErrors(frame, how) ==
  LET nextCount == frame.count + 1
      maxTries == frame.maxRetries + 1
      fetched == how.response
      caught == \/ how.threw
                \/ /\ ~ok(fetched)
                   /\ fetched.status >= 500
                   /\ nextCount <= maxTries
  IN  IF ~caught THEN returnResponse(frame, fetched)
      ELSE IF nextCount <= maxTries
      THEN [frame EXCEPT !.pc = "sleeping", !.response = fetched]
      ELSE [frame EXCEPT !.pc = "rejected", !.response = fetched,
                         !.error = RetriesError(frame.maxRetries, FetchError)]

\* httpFetchSettled throwing on a 429 or 503 that arrives when no attempt is
\* left, as it does when the fetch call throws.
httpFetchSettled_ThrowsOnLastRetriable(frame, how) ==
  LET nextCount == frame.count + 1
      maxTries == frame.maxRetries + 1
      fetched == how.response
      caught == \/ how.threw
                \/ /\ ~ok(fetched)
                   /\ fetched.status \in RETRIABLE_STATUS_CODES
  IN  IF ~caught THEN returnResponse(frame, fetched)
      ELSE IF nextCount <= maxTries
      THEN [frame EXCEPT !.pc = "sleeping", !.response = fetched]
      ELSE [frame EXCEPT !.pc = "rejected", !.response = fetched,
                         !.error = RetriesError(frame.maxRetries, FetchError)]

\* httpFetch from the moment fetchApi has settled to its return, to its throw
\* or to `await sleep(...)`.
httpFetchSettled(frame, how) ==
  LET nextCount == frame.count + 1
      maxTries == frame.maxRetries + 1
      fetched == how.response
      caught == \/ how.threw
                \/ /\ ~ok(fetched)
                   /\ fetched.status \in RETRIABLE_STATUS_CODES
                   /\ nextCount <= maxTries
  IN  IF ~caught THEN returnResponse(frame, fetched)
      ELSE IF nextCount <= maxTries
      THEN [frame EXCEPT !.pc = "sleeping", !.response = fetched]
      ELSE [frame EXCEPT !.pc = "rejected", !.response = fetched,
                         !.error = RetriesError(frame.maxRetries, FetchError)]

\* return httpFetch(requestParams, nextCount, maxRetries)
httpFetchAfterSleep(frame) == httpFetch(frame, frame.count + 1, frame.maxRetries)

\* restAfterText returning the body and page info whatever the status is.
restAfterText_ReturnsErrorBody(frame) ==
  [frame EXCEPT
     !.pc = "returned",
     !.requestReturn =
       [ body |-> JSONParse(ResponseText(frame.response)),
         headers |-> frame.response.link,
         pageInfo |-> readPageInfo(frame.response.link) ]]

\* RestClient.request from the body's text to its return or throw.
restAfterText(frame) ==
  IF ~ok(frame.response)
  THEN [frame EXCEPT !.pc = "rejected", !.error = throwFailedRequest(frame.response)]
  ELSE [frame EXCEPT
          !.pc = "returned",
          !.requestReturn =
            [ body |-> JSONParse(ResponseText(frame.response)),
              headers |-> frame.response.link,
              pageInfo |-> readPageInfo(frame.response.link) ]]

\* What the caller of a request that has ended has got: a return or an error
\* and, of a RestRequestReturn, whether the next and the previous page are set.
Seen(frame) ==
  [ state |-> frame.pc,
    nextPage |-> frame.requestReturn.pageInfo.nextPage # NoPage,
    prevPage |-> frame.requestReturn.pageInfo.prevPage # NoPage ]

nonRestVars ==
  << webhookRegistry, lastAdd, apiSecretKey, processVars, regVars, tokenVars >>

\* get, put, post or delete of the client createAdminRestApiClient returned.
ClientRequest ==
  /\ rest.pc = "idle"
  /\ Len(observed) < MaxRequests
  /\ \E method \in Methods, clientRetries \in 0..MaxTries, retries \in RetriesOptions :
       rest' = clientRequest([NoRest EXCEPT !.op = "client",
                                            !.clientRetries = clientRetries],
                             method, retries)
  /\ fetches' = << >>
  /\ UNCHANGED << observed, nonRestVars >>

\* get, post, put or delete of a RestClient, or its request with a method it
\* has no case for.
RestClientRequest ==
  /\ rest.pc = "idle"
  /\ Len(observed) < MaxRequests
  /\ \E method \in Methods \cup { Patch }, tries \in TriesOptions :
       rest' = restRequest(NoRest, method, tries)
  /\ fetches' = << >>
  /\ UNCHANGED << observed, nonRestVars >>

\* The fetch call settles.
FetchSettles(how) ==
  /\ rest.pc = "awaitFetch"
  /\ rest' = httpFetchSettled(rest, how)
  /\ fetches' = Append(fetches, how)
  /\ UNCHANGED << observed, nonRestVars >>

\* The shop answers.
FetchResponds == \E fetched \in RestResponses : FetchSettles(Answered(fetched))

\* The request is abandoned.
FetchThrows == FetchSettles(Abandoned)

\* The wait before the next attempt is over.
SleepEnds ==
  /\ rest.pc = "sleeping"
  /\ rest' = httpFetchAfterSleep(rest)
  /\ UNCHANGED << fetches, observed, nonRestVars >>

\* The body of the response has been read.
TextRead ==
  /\ rest.pc = "awaitText"
  /\ rest' = restAfterText(rest)
  /\ UNCHANGED << fetches, observed, nonRestVars >>

\* The caller has the request's outcome.
RestReturn ==
  /\ rest.pc \in { "returned", "rejected" }
  /\ observed' = Append(observed, Seen(rest))
  /\ rest' = NoRest
  /\ fetches' = << >>
  /\ UNCHANGED nonRestVars

RestInit == Init /\ apiSecretKey = << "k" >>

\* One request through either client, with any method, any retries or tries
\* and fetch calls that settle in any way.
RestNext ==
  \/ observed = << >> /\ ClientRequest
  \/ observed = << >> /\ RestClientRequest
  \/ FetchResponds
  \/ FetchThrows
  \/ SleepEnds
  \/ TextRead
  \/ RestReturn

RestSpec == RestInit /\ [][RestNext]_vars

\* The pages of a listing: GET requests of a RestClient one after the other,
\* each answered with 200 and any Link header, or with 404.
PagesNext ==
  \/ RestClientRequest /\ rest'.method = "GET" /\ rest'.tries = NotPassed
  \/ FetchResponds /\ fetches'[Len(fetches')].response.status \in { 200, 404 }
  \/ TextRead
  \/ RestReturn

PagesSpec == RestInit /\ [][PagesNext]_vars

\* -------------------------------------------------------- token exchange

\* What a stretch of tokenExchange between two awaits yields: the call's frame
\* and the abstractFetch calls it makes.
TokenStep(frame, send) == [exchange |-> frame, send |-> send]

TokenExchangeParams ==
  [ shop : ExchangeShops, sessionToken : SessionTokens,
    requestedTokenType : RequestedTokenTypes ]

\* tokenExchange posting its request before it awaits the decoding of the
\* session token.
tokenExchangeStart_PostsFirst(frame, params, secret) ==
  TokenStep([frame EXCEPT !.pc = "awaitDecode", !.shop = params.shop,
                          !.sessionToken = params.sessionToken,
                          !.requestedTokenType = params.requestedTokenType],
            << ExchangeRequest(params.shop,
                               ExchangeBody(secret, params.sessionToken,
                                            params.requestedTokenType)) >>)

\* tokenExchange from its call to `await decodeSessionToken(config)(sessionToken)`
tokenExchangeStart(frame, params, secret) ==
  TokenStep([frame EXCEPT !.pc = "awaitDecode", !.shop = params.shop,
                          !.sessionToken = params.sessionToken,
                          !.requestedTokenType = params.requestedTokenType],
            << >>)

\* tokenExchange from the decoded session token to `await abstractFetch(...)`,
\* or to the throw of sanitizeShop.
tokenExchangeAfterDecode(frame, secret) ==
  LET body == ExchangeBody(secret, frame.sessionToken, frame.requestedTokenType)
      cleanShop == sanitizeShop(frame.shop)
  IN  IF cleanShop.threw
      THEN TokenStep([frame EXCEPT !.pc = "rejected", !.decoded = TRUE,
                                   !.error = cleanShop.value], << >>)
      ELSE TokenStep([frame EXCEPT !.pc = "awaitFetch", !.decoded = TRUE,
                                   !.cleanShop = cleanShop.value],
                     << ExchangeRequest(cleanShop.value, body) >>)

nonTokenVars ==
  << webhookRegistry, lastAdd, apiSecretKey, processVars, regVars, restVars >>

\* The call goes on as the step says.
AdvanceExchange(step) ==
  /\ exchange' = step.exchange
  /\ posted' = posted \o step.send
  /\ UNCHANGED << sessions, nonTokenVars >>

\* The await of the call under way rejects with error; nothing catches it.
ExchangeRejects(error) ==
  AdvanceExchange(TokenStep([exchange EXCEPT !.pc = "rejected", !.error = error],
                            << >>))

TokenExchangeCall ==
  /\ exchange.pc = "idle"
  /\ \E params \in TokenExchangeParams :
       AdvanceExchange(tokenExchangeStart(NoExchange, params, apiSecretKey))

\* decodeSessionToken resolves.
DecodeResolves ==
  /\ exchange.pc = "awaitDecode"
  /\ AdvanceExchange(tokenExchangeAfterDecode(exchange, apiSecretKey))

\* decodeSessionToken rejects: the token is not a valid session token.
DecodeRejects ==
  /\ exchange.pc = "awaitDecode"
  /\ ExchangeRejects(InvalidJwtError)

\* abstractFetch resolves with the response.
PostResolves ==
  /\ exchange.pc = "awaitFetch"
  /\ AdvanceExchange(TokenStep([exchange EXCEPT !.pc = "awaitJson"], << >>))

\* abstractFetch rejects.
PostRejects ==
  /\ exchange.pc = "awaitFetch"
  /\ ExchangeRejects(FetchRejected)

\* postResponse.json() resolves: the session is created and returned.
JsonResolves ==
  /\ exchange.pc = "awaitJson"
  /\ \E accessTokenResponse \in AccessTokenResponses :
       LET session == createSession(accessTokenResponse, exchange.cleanShop)
       IN  /\ exchange' = [exchange EXCEPT !.pc = "returned",
                                           !.session = << session >>]
           /\ sessions' = Append(sessions, session)
  /\ UNCHANGED << posted, nonTokenVars >>

\* postResponse.json() rejects.
JsonRejects ==
  /\ exchange.pc = "awaitJson"
  /\ ExchangeRejects(JsonRejected)

\* The caller has the call's outcome.
ExchangeReturn ==
  /\ exchange.pc \in { "returned", "rejected" }
  /\ exchange' = NoExchange
  /\ posted' = << >>
  /\ sessions' = << >>
  /\ UNCHANGED nonTokenVars

\* tokenExchange calls one after the other, with any shop, session token and
\* token type, awaits that settle either way.
TokenNext ==
  \/ TokenExchangeCall
  \/ DecodeResolves
  \/ DecodeRejects
  \/ PostResolves
  \/ PostRejects
  \/ JsonResolves
  \/ JsonRejects
  \/ ExchangeReturn

TokenSpec == Init /\ [][TokenNext]_vars

\* ------------------------------------------------------------ properties

\* The received signature header equals the digest of the body under the
\* configured secret.
SigMatches == request.hmac = createSHA256HMAC(apiSecretKey, request.body)

\* C1: whenever process has computed the digest and the received signature
\* header differs from it, no handler is looked up or invoked, and process ends
\* with status 403 and rejects with the InvalidWebhookError "Could not validate
\* request for topic <topic>", whatever the handler table holds.
C1_InvalidSignatureForbidden ==
  (hashCalls = 1 /\ ~SigMatches) =>
    /\ calls = << >>
    /\ lookups = 0
    /\ pc # "awaitHandler"
    /\ pc = "done" =>
         /\ response.statusCode = Forbidden
         /\ outcome = Rejected(InvalidWebhookError(CouldNotValidateMessage,
                                                   request.topic))

\* A request with a wrong signature has ended while a handler is registered
\* under its normalized topic.
C1_Witness ==
  /\ pc = "done"
  /\ hashCalls = 1
  /\ ~SigMatches
  /\ GraphqlTopic(request.topic) \in DOMAIN webhookRegistry
  /\ response.statusCode = Forbidden

\* C2: a request with a body, the three headers and a valid signature whose
\* normalized topic is a key of the handler table makes process invoke that
\* key's handler, and only it, once, with no further invocation while it runs;
\* when the handler completes without error the status is 200 and process
\* resolves.
C2_ValidDeliveryDispatchedOnce ==
  /\ [][ ( /\ pc = "awaitHash"
           /\ pc' # "awaitHash"
           /\ SigMatches
           /\ GraphqlTopic(request.topic) \in DOMAIN webhookRegistry )
         => ( /\ pc' = "awaitHandler"
              /\ calls' =
                   << [ handler |->
                          webhookRegistry[GraphqlTopic(request.topic)].webhookHandler,
                        topic |-> GraphqlTopic(request.topic),
                        shop_domain |-> request.domain,
                        body |-> request.body ] >> ) ]_vars
  /\ [][ pc = "awaitHandler" => calls' = calls ]_vars
  /\ []( (pc = "done" /\ settled = Fulfilled) =>
           /\ Len(calls) = 1
           /\ response.statusCode = Ok
           /\ outcome = Resolved )

\* The delivery of topic o/c has been dispatched to the handler under O_C, which
\* completed.
C2_Witness ==
  /\ pc = "done"
  /\ settled = Fulfilled
  /\ request.topic = << "o", "/", "c" >>
  /\ Len(calls) = 1
  /\ calls[1].topic = << "O", "_", "C" >>
  /\ calls[1].handler = webhookRegistry[<< "O", "_", "C" >>].webhookHandler
  /\ response.statusCode = Ok
  /\ outcome = Resolved

\* C3: process looks a handler up or invokes one only if the received digest
\* equals the digest of the raw body under the secret; once the signature step
\* has run, a request carrying the right digest has been accepted (the lookup
\* was made) and a request carrying any other digest has been rejected by it.
C3_DispatchOnlyOnEqualDigest ==
  /\ (lookups > 0 \/ calls # << >>) => SigMatches
  /\ (hashCalls = 1 /\ pc \in { "awaitHandler", "done" }) =>
       /\ SigMatches => lookups = 1
       /\ ~SigMatches =>
            /\ lookups = 0
            /\ outcome = Rejected(InvalidWebhookError(CouldNotValidateMessage,
                                                      request.topic))

\* A digest that differs from the right one in exactly one character has been
\* rejected.
C3_Witness ==
  /\ pc = "done"
  /\ hashCalls = 1
  /\ Len(request.hmac) = DigestLen
  /\ Cardinality({ i \in 1..DigestLen :
                     request.hmac[i] # createSHA256HMAC(apiSecretKey, request.body)[i] }) = 1
  /\ response.statusCode = Forbidden
  /\ lookups = 0

\* The required headers a request lacks (a header without a value counts).
MissingSet(req) ==
  { h \in { HmacHeader, TopicHeader, DomainHeader } :
      \/ h = HmacHeader /\ Falsy(req.hmac)
      \/ h = TopicHeader /\ Falsy(req.topic)
      \/ h = DomainHeader /\ Falsy(req.domain) }

InMissingSet(h) == h \in MissingSet(request)

\* C4: a request that has a body and lacks some of the three required headers
\* ends with status 400, no handler invoked, and an InvalidWebhookError whose
\* message lists exactly the missing headers in the order Hmac, Topic, Domain.
C4_MissingHeadersListed ==
  (pc = "done" /\ ~Falsy(request.body) /\ MissingSet(request) # {}) =>
    /\ response.statusCode = BadRequest
    /\ calls = << >>
    /\ outcome =
         Rejected(InvalidWebhookError(
           MissingHeadersMessage,
           SelectSeq(<< HmacHeader, TopicHeader, DomainHeader >>, InMissingSet)))

\* A request with a body and none of the three headers has ended, all three
\* listed.
C4_Witness ==
  /\ pc = "done"
  /\ ~Falsy(request.body)
  /\ MissingSet(request) = { HmacHeader, TopicHeader, DomainHeader }
  /\ outcome.reason.args = << HmacHeader, TopicHeader, DomainHeader >>
  /\ response.statusCode = BadRequest

\* C5: a call of process with an absent body never waits for a digest or a
\* handler: it ends with status 400 and the InvalidWebhookError "No body was
\* received", with no digest computed, no handler looked up and none invoked,
\* whatever its headers.
C5_NoBodyBadRequest ==
  (pc # "idle" /\ Falsy(request.body)) =>
    /\ pc = "done"
    /\ response.statusCode = BadRequest
    /\ outcome = Rejected(InvalidWebhookError(NoBodyMessage, << >>))
    /\ hashCalls = 0
    /\ lookups = 0
    /\ calls = << >>

\* A request without a body but with all three headers has ended.
C5_Witness ==
  /\ pc = "done"
  /\ request.body = Undefined
  /\ MissingSet(request) = {}
  /\ response.statusCode = BadRequest

\* C6: a request whose signature process found valid and whose normalized topic
\* is no key of the handler table ends with no handler invoked, status 403 and
\* the InvalidWebhookError "No webhook is registered for topic <topic>".
C6_UnregisteredTopicForbidden ==
  ( /\ pc = "done"
    /\ hashCalls = 1
    /\ SigMatches
    /\ GraphqlTopic(request.topic) \notin DOMAIN webhookRegistry ) =>
    /\ calls = << >>
    /\ response.statusCode = Forbidden
    /\ outcome = Rejected(InvalidWebhookError(NoWebhookMessage, request.topic))

\* A validly signed delivery has ended while the table holds handlers, none of
\* them under its normalized topic.
C6_Witness ==
  /\ pc = "done"
  /\ hashCalls = 1
  /\ SigMatches
  /\ webhookRegistry # << >>
  /\ GraphqlTopic(request.topic) \notin DOMAIN webhookRegistry
  /\ response.statusCode = Forbidden

\* C7: when the invoked handler throws or rejects with a value, process has
\* ended with status 500 and has rejected with that same value, the handler
\* having been invoked once.
C7_HandlerErrorResurfaced ==
  (pc = "done" /\ settled.state = "rejected") =>
    /\ response.statusCode = InternalServerError
    /\ outcome = Rejected(settled.value)
    /\ Len(calls) = 1

\* The part of C7 the code keeps: an Error object thrown by the handler is
\* re-thrown, after status 500 is set.
ErrorObjectResurfaced ==
  (pc = "done" /\ settled.state = "rejected" /\ settled.value \in ErrorObjects) =>
    /\ response.statusCode = InternalServerError
    /\ outcome = Rejected(settled.value)
    /\ Len(calls) = 1

\* C8: when a call of process has ended, the status is one of 200, 400, 403, 500
\* and process has resolved if the status is 200 and rejected otherwise.
C8_ResolvesIffOk ==
  pc = "done" =>
    /\ response.statusCode \in { Ok, BadRequest, Forbidden, InternalServerError }
    /\ outcome.state \in { "resolved", "rejected" }
    /\ outcome.state = "resolved" <=> response.statusCode = Ok

\* The part of C8 the code keeps, under FairSpec: a call that waits for the
\* digest or for a handler that settles ends.
ProcessEnds == (pc \in { "awaitHash", "awaitHandler" }) ~> (pc = "done")

\* What the caller observes of a call that ends without a handler invocation.
Observable(r) == << r.statusCode, r.error >>

\* The table without any handler, and a table with a handler under the key the
\* request's topic normalizes to.
EmptyTable == << >>
TableWithHandlerFor(req) ==
  addHandler(EmptyTable, GraphqlTopic(req.topic), CHOOSE e \in Entries : TRUE)

\* C9: under every reachable handler table, the status and error of a request
\* whose signature is invalid are those process yields for it under the empty
\* table and under a table with a handler for its topic (so any two tables give
\* the same); and a validly signed request without a handler ends with the same
\* status, 403, as an invalidly signed one, under a different message.
C9_OutcomeIndependentOfTable ==
  /\ (pc = "done" /\ hashCalls = 1 /\ ~SigMatches) =>
       /\ Observable(HashResult(request, EmptyTable, apiSecretKey))
            = << response.statusCode, outcome.reason >>
       /\ Observable(HashResult(request, TableWithHandlerFor(request), apiSecretKey))
            = << response.statusCode, outcome.reason >>
  /\ (pc = "done" /\ hashCalls = 1 /\ calls = << >>) =>
       /\ response.statusCode = Forbidden
       /\ outcome.reason.message =
            IF SigMatches THEN NoWebhookMessage ELSE CouldNotValidateMessage
  /\ NoWebhookMessage # CouldNotValidateMessage

\* An invalidly signed request has ended with 403 under a table that holds no
\* handler for its topic.
C9_Witness ==
  /\ pc = "done"
  /\ hashCalls = 1
  /\ ~SigMatches
  /\ GraphqlTopic(request.topic) \notin DOMAIN webhookRegistry
  /\ webhookRegistry # << >>
  /\ response.statusCode = Forbidden
  /\ outcome.reason.message = CouldNotValidateMessage

\* ---------------------------------------------- properties of registration

\* The mutation requests in a log of requests.
Mutations(log) == { i \in DOMAIN log : log[i].kind = "mutation" }

\* The register call under way has ended and is the second of two successive
\* register calls with the same topic, path and delivery method, the first of
\* which found no subscription, created one and was told the remote has it.
SecondOfTwo ==
  /\ reg.op = "register"
  /\ reg.pc \in { "returned", "rejected" }
  /\ previous.reg.op = "register"
  /\ previous.reg.pc = "returned"
  /\ previous.reg.options = reg.options
  /\ previous.reg.webhookId = Undefined
  /\ previous.reg.registerReturn[reg.options.topic].success

\* The call under way issued the check query and nothing else and, when it
\* returned, returned the skip outcome.
OnlyChecked ==
  /\ Len(sent) = 1
  /\ sent[1].kind = "query"
  /\ reg.pc = "returned" => reg.registerReturn = (reg.options.topic :> Skipped)

\* C11: of two successive register calls for the same topic with the same
\* target address and delivery method, made from a remote without a
\* subscription for the topic, the first issues the one mutation and the second
\* issues only the check query and returns the skip outcome, for Http,
\* EventBridge and PubSub alike.
C11_RegistrationIdempotent ==
  SecondOfTwo => Cardinality(Mutations(previous.sent)) = 1 /\ OnlyChecked

\* The same for the two delivery methods whose endpoint address register reads
\* off the check query's response.
IdempotentForHttpAndEventBridge ==
  SecondOfTwo /\ reg.options.deliveryMethod \in { Http, EventBridge }
    => Cardinality(Mutations(previous.sent)) = 1 /\ OnlyChecked

SecondOfTwoHttp == SecondOfTwo /\ reg.options.deliveryMethod = Http

\* The address a subscription's endpoint delivers to.
AddressOf(endpoint) ==
  CASE endpoint.typename = "WebhookHttpEndpoint" -> endpoint.callbackUrl
    [] endpoint.typename = "WebhookEventBridgeEndpoint" -> endpoint.arn
    [] OTHER -> << "pubsub://" >> \o endpoint.pubSubProject
                  \o << ":" >> \o endpoint.pubSubTopic

\* The register call under way, or the one registerAll is in, got an existing
\* subscription from its check query whose address is not the target address,
\* and has gone on from there.
SawOtherAddress ==
  /\ \/ reg.pc = "awaitMutation"
     \/ reg.op = "register" /\ reg.pc \in { "returned", "rejected" }
  /\ reg.checkResult # << >>
  /\ AddressOf(reg.checkResult[1].node.endpoint) # reg.address

\* The mutation requests of a log that are about a topic.
MutationsFor(log, topic) == { i \in Mutations(log) : log[i].topic = topic }

\* C12: when the check query returned an existing subscription whose endpoint
\* address is not the target address, register issues exactly one mutation
\* request for the topic: the update mutation of the requested delivery method,
\* identified by the existing subscription's id.
C12_UpdateOnOtherAddress ==
  SawOtherAddress =>
    /\ Cardinality(MutationsFor(sent, reg.options.topic)) = 1
    /\ \A i \in MutationsFor(sent, reg.options.topic) :
         /\ sent[i].data.mutationName =
              MutationPrefix(reg.options.deliveryMethod) \o "Update"
         /\ sent[i].data.identifier =
              [key |-> "id", value |-> reg.checkResult[1].node.id]

C12_Witness ==
  /\ SawOtherAddress
  /\ reg.op = "register"
  /\ reg.pc = "returned"
  /\ reg.options.deliveryMethod = EventBridge
  /\ reg.registerReturn[reg.options.topic].success

\* register has been called, directly or by registerAll.
RegisterCalled == reg.options.topic # << >>

\* C13: a register call with delivery method PubSub under an API version before
\* July21 is rejected with UnsupportedClientType without any request having
\* been handed to the transport; a call with Http or EventBridge is never
\* rejected with that error, whatever the version.
C13_PubSubVersionGate ==
  RegisterCalled =>
    IF reg.options.deliveryMethod = PubSub /\ apiVersion = April21
    THEN /\ reg.pc = "rejected"
         /\ reg.error = UnsupportedClientType
         /\ sent = << >>
         /\ net = { }
    ELSE reg.error # UnsupportedClientType

C13_Witness ==
  /\ reg.op = "register"
  /\ reg.options.deliveryMethod = PubSub
  /\ apiVersion = April21
  /\ reg.pc = "rejected"
  /\ sent = << >>

\* Http and EventBridge calls under the early version go through the gate.
C13_WitnessHttp ==
  /\ reg.op = "register"
  /\ reg.options.deliveryMethod = Http
  /\ apiVersion = April21
  /\ reg.pc = "returned"

\* registerAll runs over three topics and the transport rejected the mutation
\* request of the second one.
SecondMutationRejected ==
  /\ reg.op = "registerAll"
  /\ Len(reg.topics) = 3
  /\ reg.index = 2
  /\ reg.error = HttpRequestError
  /\ sent # << >>
  /\ sent[Len(sent)].kind = "mutation"
  /\ sent[Len(sent)].topic = reg.topics[2]

\* C14: when the transport rejects the mutation request of the second of three
\* topics, registerAll does not end there: it is not rejected, goes on with the
\* third topic and returns a mapping with the outcomes of the first and the
\* third topic.
C14_FailureDoesNotAbort ==
  SecondMutationRejected =>
    /\ reg.pc # "rejected"
    /\ reg.pc = "returned" => { reg.topics[1], reg.topics[3] } \subseteq DOMAIN reg.allReturn

\* The mapping the call under way returned.
Returned == IF reg.op = "register" THEN reg.registerReturn ELSE reg.allReturn

\* C15: a register call that returns, returns a mapping whose one key is the
\* requested topic; a registerAll call that returns, returns a mapping whose
\* keys are the topics of the handler table; and the outcome of every topic
\* for which no mutation was issued is success = true with an empty result.
C15_OneOutcomePerTopic ==
  reg.pc = "returned" =>
    /\ reg.op = "register" => DOMAIN Returned = { reg.options.topic }
    /\ reg.op = "registerAll" =>
         /\ DOMAIN Returned = getTopics(webhookRegistry)
         /\ DOMAIN Returned = { reg.topics[i] : i \in DOMAIN reg.topics }
    /\ \A topic \in DOMAIN Returned :
         MutationsFor(sent, topic) = { } => Returned[topic] = Skipped

\* registerAll returned for three topics, one skipped and one written.
C15_Witness ==
  /\ reg.op = "registerAll"
  /\ reg.pc = "returned"
  /\ Len(reg.topics) = 3
  /\ \E t, u \in DOMAIN Returned :
       /\ Returned[t] = Skipped
       /\ MutationsFor(sent, u) # { }
       /\ Returned[u].success

\* The create mutations of a log that are about a topic.
CreatesFor(log, topic) ==
  { i \in MutationsFor(log, topic) : log[i].data.identifier.key = "topic" }

\* C16: while a registerAll call is under way at most one of its requests is
\* in flight, the check query of a topic has been issued only once every topic
\* before it has its outcome in the mapping, and no topic has had more than
\* one create mutation issued.
C16_OneTopicAtATime ==
  reg.op = "registerAll" =>
    /\ Cardinality(net) <= 1
    /\ \A k \in DOMAIN sent, j \in DOMAIN reg.topics :
         sent[k].kind = "query" /\ sent[k].topic = reg.topics[j] =>
           \A h \in 1..(j - 1) : reg.topics[h] \in DOMAIN reg.allReturn
    /\ \A topic \in RegTopics : Cardinality(CreatesFor(sent, topic)) <= 1

\* The third topic's check query is in flight after two creates.
C16_Witness ==
  /\ reg.op = "registerAll"
  /\ reg.pc = "awaitCheck"
  /\ reg.index = 3
  /\ Cardinality(net) = 1
  /\ CreatesFor(sent, reg.topics[1]) # { }
  /\ CreatesFor(sent, reg.topics[2]) # { }

\* --------------------------------------------- properties of the handler table

\* C17: every key of the handler table is in normalized form: upper case, with
\* '_' for '/', the form process looks a delivery's topic up in.
C17_KeysNormalized ==
  \A key \in DOMAIN webhookRegistry : key = GraphqlTopic(key)

\* A correctly signed delivery for o/c, whose handler was added under o/c and
\* under no other spelling, ends 403 for want of a handler.
AddedButNotDispatched ==
  /\ DOMAIN webhookRegistry = { << "o", "/", "c" >> }
  /\ request.topic = << "o", "/", "c" >>
  /\ SigMatches
  /\ pc = "done"
  /\ response.statusCode = Forbidden
  /\ outcome = Rejected(InvalidWebhookError(NoWebhookMessage, request.topic))

C19_OnlyAddsChangeTable ==
  [][ webhookRegistry' # webhookRegistry =>
        /\ UNCHANGED << processVars, regVars >>
        /\ DOMAIN webhookRegistry \subseteq DOMAIN webhookRegistry' ]_vars

\* A registerAll call over a non-empty table has ended in a rejection.
C19_Witness ==
  /\ reg.op = "registerAll"
  /\ reg.pc = "rejected"
  /\ reg.error = HttpRequestError
  /\ webhookRegistry # << >>
  /\ webhookRegistry = lastAdd

\* A process call over a non-empty table has ended with the handler's error.
C19_WitnessProcess ==
  /\ pc = "done"
  /\ response.statusCode = InternalServerError
  /\ webhookRegistry # << >>
  /\ webhookRegistry = lastAdd

\* The paths of the entries added last for their topics.
RegisteredPaths == { lastAdd[t].path : t \in DOMAIN lastAdd }

\* C20: isWebhookPath(p) is true exactly for the paths of the entries the
\* table holds now, the entries added last for their topics.
C20_WebhookPathIffRegistered ==
  \A p \in Paths \cup RegPaths :
    isWebhookPath(webhookRegistry, p) <=> p \in RegisteredPaths

\* Two entries share /hooks and no entry has /webhooks.
C20_Witness ==
  /\ Cardinality(DOMAIN webhookRegistry) >= 2
  /\ isWebhookPath(webhookRegistry, "/hooks")
  /\ ~isWebhookPath(webhookRegistry, "/webhooks")

\* ------------------------------------------- properties of the mutations

\* The Admin API's mutation that creates a subscription of a delivery method,
\* and the one that updates it.
CreateMutation ==
  (Http :> "webhookSubscriptionCreate")
    @@ (EventBridge :> "eventBridgeWebhookSubscriptionCreate")
    @@ (PubSub :> "pubSubWebhookSubscriptionCreate")

UpdateMutation ==
  (Http :> "webhookSubscriptionUpdate")
    @@ (EventBridge :> "eventBridgeWebhookSubscriptionUpdate")
    @@ (PubSub :> "pubSubWebhookSubscriptionUpdate")

\* The mutation document the call waits on.
IssuedMutation == sent[Len(sent)].data

\* C21: the mutation document buildQuery makes is, for every delivery method,
\* the method's Create mutation identified by the topic when no subscription id
\* is passed, and the method's Update mutation identified by that id when one
\* is.
C21_MutationByMethodAndId ==
  reg.pc = "awaitMutation" =>
    IF reg.checkResult = << >>
    THEN /\ IssuedMutation.mutationName = CreateMutation[reg.options.deliveryMethod]
         /\ IssuedMutation.identifier = [key |-> "topic", value |-> reg.options.topic]
    ELSE /\ IssuedMutation.mutationName = UpdateMutation[reg.options.deliveryMethod]
         /\ IssuedMutation.identifier =
              [key |-> "id", value |-> reg.checkResult[1].node.id]

\* An update has been issued for a Pub/Sub subscription.
C21_Witness ==
  /\ reg.pc = "awaitMutation"
  /\ reg.options.deliveryMethod = PubSub
  /\ reg.checkResult # << >>
  /\ IssuedMutation.mutationName = "pubSubWebhookSubscriptionUpdate"

\* A creation has been issued for an EventBridge subscription.
C21_WitnessCreate ==
  /\ reg.pc = "awaitMutation"
  /\ reg.options.deliveryMethod = EventBridge
  /\ reg.checkResult = << >>
  /\ IssuedMutation.identifier.key = "topic"

\* The outcome of a topic whose mutation, the i-th request of the call, has
\* been answered: success says whether the body holds a subscription under
\* the name of the mutation issued, and result is that body.
ReadsIssuedMutation(out, i) ==
  LET name == sent[i].data.mutationName
  IN  /\ out.result # << >>
      /\ name \in DOMAIN out.result.data
      /\ out.success <=> out.result.data[name].webhookSubscription # NullSubscription
      /\ out.result = MutationBody(sent[i].data,
                                   out.result.data[name].webhookSubscription)

\* C22: the key of the response register looks under to decide success is the
\* name of the mutation it issued; success is true exactly when the object
\* under that name has a non-null webhookSubscription, and the outcome's result
\* is the response body either way.
C22_SuccessReadUnderIssuedName ==
  \A t \in DOMAIN Returned :
    \A i \in MutationsFor(sent, t) : ReadsIssuedMutation(Returned[t], i)

\* An update the remote accepted has been reported as a success.
C22_Witness ==
  \E t \in DOMAIN Returned :
    \E i \in MutationsFor(sent, t) :
      /\ sent[i].data.identifier.key = "id"
      /\ Returned[t].success
      /\ Returned[t].result.data[sent[i].data.mutationName].userErrors = << >>

\* A mutation the remote refused has been reported as a failure, with the
\* body that carries the refusal.
C22_WitnessRefused ==
  \E t \in DOMAIN Returned :
    \E i \in MutationsFor(sent, t) :
      /\ ~Returned[t].success
      /\ Returned[t].result.data[sent[i].data.mutationName].userErrors # << >>

\* ------------------------------------------- properties of the response

\* C23: when a process call has ended, with 400, 403, 500 or 200, the response
\* has its status code set and its headers set to an empty mapping, and nothing
\* else of the response has changed.
C23_ResponseSetOnEveryOutcome ==
  pc = "done" =>
    /\ response.statusCode \in { BadRequest, Forbidden, InternalServerError, Ok }
    /\ response.headers = "empty"
    /\ DOMAIN response = DOMAIN FreshResponse

\* What holds of the response: the status code is set on every outcome, and
\* the headers are set on every outcome but 400.
StatusSetHeadersUnlessBadRequest ==
  pc = "done" =>
    /\ response.statusCode \in { BadRequest, Forbidden, InternalServerError, Ok }
    /\ response.headers = "empty" <=> response.statusCode # BadRequest
    /\ DOMAIN response = DOMAIN FreshResponse

\* ------------------------------------- properties of the order of checks

\* The steps of process that follow the body and header checks leave a trace:
\* the digest computed, the table looked up, the handler called. A step has
\* been taken only when every check before it has passed.
NoStepPastFailedCheck ==
  /\ hashCalls > 0 => Truthy(request.body) /\ MissingSet(request) = { }
  /\ lookups > 0 => hashCalls > 0 /\ SigMatches
  /\ calls # << >> => lookups > 0
  /\ GraphqlTopic(request.topic) \notin DOMAIN webhookRegistry => calls = << >>

\* The outcome of an ended call is the one of the first check that failed.
FirstFailedCheckDecides ==
  pc = "done" =>
    IF Falsy(request.body)
    THEN /\ response.statusCode = BadRequest
         /\ outcome = Rejected(InvalidWebhookError(NoBodyMessage, << >>))
    ELSE IF MissingSet(request) # { }
    THEN /\ response.statusCode = BadRequest
         /\ outcome.state = "rejected"
         /\ outcome.reason.message = MissingHeadersMessage
    ELSE IF ~SigMatches
    THEN /\ response.statusCode = Forbidden
         /\ outcome = Rejected(InvalidWebhookError(CouldNotValidateMessage,
                                                   request.topic))
    ELSE IF calls = << >>
    THEN /\ response.statusCode = Forbidden
         /\ outcome = Rejected(InvalidWebhookError(NoWebhookMessage, request.topic))
    ELSE /\ response.statusCode \in { Ok, InternalServerError }
         /\ Len(calls) = 1

C28_WitnessSignature ==
  /\ pc = "done"
  /\ MissingSet(request) = { }
  /\ ~SigMatches
  /\ GraphqlTopic(request.topic) \notin DOMAIN webhookRegistry
  /\ outcome = Rejected(InvalidWebhookError(CouldNotValidateMessage, request.topic))

\* ------------------------------- properties of the requests of register

\* The register call under way has passed validateDeliveryMethod.
PassedGate == reg.op = "register" /\ reg.error # UnsupportedClientType

\* The requests of the call so far: the check query for its topic first, and
\* after it at most one mutation, for the same topic.
CheckThenAtMostOneMutation ==
  /\ Len(sent) \in { 1, 2 }
  /\ sent[1].kind = "query" /\ sent[1].topic = reg.options.topic
  /\ Len(sent) = 2 => sent[2].kind = "mutation" /\ sent[2].topic = reg.options.topic
  /\ reg.pc = "awaitCheck" => Len(sent) = 1
  /\ reg.pc = "awaitMutation" => Len(sent) = 2

\* A mutation is sent in the step that takes the check query's response.
MutationSentOnCheckResponse ==
  (Len(sent') > Len(sent) /\ sent'[Len(sent')].kind = "mutation") =>
    /\ reg.pc = "awaitCheck"
    /\ sent = << sent'[1] >>
    /\ sent'[1] \in net /\ sent'[1] \notin net'

\* C29: a register call that passes the version gate issues one check query,
\* before any mutation, and at most one mutation, sent only once the check
\* query's response has arrived; a later call starts with a check query again
\* whatever an earlier call has seen of the remote.
C29_CheckQueryFirstEveryCall ==
  /\ [](PassedGate => CheckThenAtMostOneMutation)
  /\ [][MutationSentOnCheckResponse]_vars

\* A second call for the topic of the first, whose check query found no
\* subscription and whose creation the remote accepted, has sent its own check
\* query and, on its response, a mutation.
C29_Witness ==
  /\ registrations = 2
  /\ previous.reg.pc = "returned"
  /\ previous.reg.options.topic = reg.options.topic
  /\ previous.reg.checkResult = << >>
  /\ Len(previous.sent) = 2
  /\ reg.pc = "awaitMutation"
  /\ sent[1].kind = "query"
  /\ reg.checkResult # << >>

\* ----------------------------------------- properties of the skipped write

\* The check query of the register call under way returned a subscription
\* that delivers to the call's target address.
SawTargetAddress ==
  /\ reg.op = "register"
  /\ reg.checkResult # << >>
  /\ AddressOf(reg.checkResult[1].node.endpoint) = reg.address

\* The call has returned the skip outcome without a mutation, and the remote
\* subscription has the id and the address the check query showed.
SkippedTheWrite ==
  /\ Mutations(sent) = { }
  /\ reg.pc = "returned"
  /\ reg.registerReturn = (reg.options.topic :> Skipped)
  /\ Head(remote[reg.options.topic]).id = reg.checkResult[1].node.id
  /\ AddressOf(Head(remote[reg.options.topic]).endpoint) = reg.address

\* C30: when the check query returns an existing subscription whose endpoint
\* address equals the target address exactly, register issues no mutation,
\* leaves the remote subscription's id and address as they are and returns
\* success = true with an empty result.
C30_EqualAddressSkipsWrite == SawTargetAddress => SkippedTheWrite

\* The same for the subscriptions whose address register reads off the check
\* query's response, those with an Http or an EventBridge endpoint.
EqualUrlOrArnSkipsWrite ==
  ( /\ SawTargetAddress
    /\ reg.checkResult[1].node.endpoint.typename
         \in { "WebhookHttpEndpoint", "WebhookEventBridgeEndpoint" } )
    => SkippedTheWrite

\* A call has skipped the write for an EventBridge subscription.
SkippedForArn ==
  /\ SawTargetAddress
  /\ reg.checkResult[1].node.endpoint.typename = "WebhookEventBridgeEndpoint"
  /\ reg.pc = "returned"

\* ----------------------------------------- properties of the REST client

\* The fetch calls the request under way has made.
FetchCalls == Len(fetches) + IF rest.pc = "awaitFetch" THEN 1 ELSE 0

\* The retries in force for a request of the client: the request's own, and
\* without them the client's.
RetriesInForce ==
  IF rest.retries = NotPassed THEN rest.clientRetries ELSE rest.retries[1]

\* C24: a request of the REST client with retries = r calls fetch at most
\* r + 1 times, however the calls settle, and a request of a RestClient with
\* tries = n calls it at most n times.
C24_AtMostRetriesPlusOneFetches ==
  /\ rest.op = "client" => FetchCalls <= RetriesInForce + 1
  /\ (rest.op = "RestClient" /\ rest.tries # NotPassed /\ rest.tries[1] >= 1)
       => FetchCalls <= rest.tries[1]

\* What holds of the number of fetch calls: one more than the claim allows,
\* counted from the request's own retries, 0 when it has none.
AtMostRetriesPlusTwoFetches ==
  rest.op # "none" =>
    FetchCalls <= (IF rest.retries = NotPassed THEN 0 ELSE rest.retries[1]) + 2

\* A request with retries = 0 is at its second fetch call.
SecondFetchWithoutRetries ==
  /\ rest.op = "client"
  /\ rest.retries = Passed(0)
  /\ rest.clientRetries = 0
  /\ FetchCalls = 2

\* The fetch call was abandoned, or answered with 429 or 503.
AbandonedOrThrottled(how) ==
  \/ how.threw
  \/ how.response.status = 429
  \/ how.response.status = 503

C25_WitnessRefetch ==
  /\ rest.pc = "awaitFetch"
  /\ Len(fetches) = 1
  /\ ~fetches[1].threw
  /\ fetches[1].response.status = 503

\* The Link header has a link of the relation whose URL has a page_info
\* parameter: "page_info" and, later in the same link, rel="<rel>".
HasPageLink(link, rel) ==
  /\ link.present
  /\ \E j, i \in DOMAIN link.value :
       /\ j < i
       /\ link.value[j] = "page_info"
       /\ \A k \in j..i : link.value[k] # ", "
       /\ i + 3 <= Len(link.value)
       /\ link.value[i] = ">; rel="
       /\ link.value[i + 1] = Quote
       /\ link.value[i + 2] = rel
       /\ link.value[i + 3] = Quote

\* The Link header of the response the request under way got last.
LastLink == fetches[Len(fetches)].response.link

\* The page info of a RestRequestReturn is read off the Link header of the
\* request's own response.
PageInfoOfOwnResponse ==
  (rest.op = "RestClient" /\ rest.pc = "returned") =>
    /\ rest.requestReturn.pageInfo.nextPage # NoPage <=> HasPageLink(LastLink, "next")
    /\ rest.requestReturn.pageInfo.nextPageUrl # Undefined
         <=> HasPageLink(LastLink, "next")
    /\ rest.requestReturn.pageInfo.prevPage # NoPage
         <=> HasPageLink(LastLink, "previous")
    /\ rest.requestReturn.pageInfo.previousPageUrl # Undefined
         <=> HasPageLink(LastLink, "previous")

\* What the caller of a request gets to see of the pages is what the Link
\* header of that request's response has, whatever earlier requests returned.
SeenOfOwnResponse ==
  (Len(observed') > Len(observed) /\ rest.pc = "returned") =>
    /\ observed'[Len(observed')].nextPage = HasPageLink(LastLink, "next")
    /\ observed'[Len(observed')].prevPage = HasPageLink(LastLink, "previous")
    /\ SubSeq(observed', 1, Len(observed)) = observed

\* C26: the page info reflects the most recent response only: the next page
\* is set exactly when that response's Link header has a rel="next" link with
\* a page_info parameter, and the previous page likewise with rel="previous".
C26_PageInfoOfLatestResponse ==
  /\ []PageInfoOfOwnResponse
  /\ [][SeenOfOwnResponse]_vars

\* Three requests answered with a next link only, a previous link only and no
\* Link header have shown (set, unset), (unset, set) and (unset, unset).
C26_Witness ==
  observed = << [state |-> "returned", nextPage |-> TRUE, prevPage |-> FALSE],
                [state |-> "returned", nextPage |-> FALSE, prevPage |-> TRUE],
                [state |-> "returned", nextPage |-> FALSE, prevPage |-> FALSE] >>

\* A response with both links has set both pages.
C26_WitnessBoth ==
  /\ rest.pc = "returned"
  /\ rest.requestReturn.pageInfo.nextPage
       = [path |-> << "fake_resources" >>, query |-> [k \in { "page_info" } |-> "nextToken"]]
  /\ rest.requestReturn.pageInfo.prevPage # NoPage

\* A response whose next link has no page_info has set no page.
C26_WitnessNoToken ==
  /\ rest.pc = "returned"
  /\ LastLink = [present |-> TRUE, value |-> Link(PageUrl(<< >>), "next")]
  /\ rest.requestReturn.pageInfo.nextPage = NoPage

\* The RestClient request under way has ended, and its last fetch call was
\* answered.
EndedOnResponse ==
  /\ rest.op = "RestClient"
  /\ rest.pc \in { "returned", "rejected" }
  /\ fetches # << >>
  /\ ~fetches[Len(fetches)].threw

\* The status of the last response.
FinalStatus == fetches[Len(fetches)].response.status

\* C27: for GET, POST, PUT and DELETE alike, a RestClient request whose final
\* response is not ok fails with a response error and returns no body and no
\* page info; a RestRequestReturn is made for ok responses only.
C27_NotOkFailsWithoutReturn ==
  EndedOnResponse =>
    IF FinalStatus < 200 \/ FinalStatus > 299
    THEN /\ rest.pc = "rejected"
         /\ rest.error.name = "HttpResponseError"
         /\ rest.requestReturn = NoReturn
    ELSE /\ rest.pc = "returned"
         /\ rest.error = NoError
         /\ rest.requestReturn.body # Undefined

\* A DELETE answered with 404 has failed.
C27_Witness ==
  /\ EndedOnResponse
  /\ rest.method = "DELETE"
  /\ FinalStatus = 404
  /\ rest.pc = "rejected"

\* A POST has failed on the 429 that its last attempt was answered with.
C27_WitnessThrottled ==
  /\ EndedOnResponse
  /\ rest.method = "POST"
  /\ FinalStatus = 429
  /\ Len(fetches) > 1
  /\ rest.pc = "rejected"

\* ------------------------------ properties of the failures of the transport

\* A register call rejected after validateDeliveryMethod was rejected with the
\* transport's error, has no outcome, and has sent its check query and at most
\* one mutation, each once.
RejectedWithTransportError ==
  (reg.op = "register" /\ reg.pc = "rejected" /\ reg.error # UnsupportedClientType)
    => /\ reg.error = HttpRequestError
       /\ reg.registerReturn = << >>
       /\ Len(sent) \in { 1, 2 }
       /\ sent[1].kind = "query"
       /\ Len(sent) = 2 => sent[2].kind = "mutation"

\* An outcome with success = false carries the response body of a mutation the
\* remote answered.
FailureOutcomeCarriesBody ==
  \A t \in DOMAIN Returned :
    ~Returned[t].success
      => /\ Returned[t].result # << >>
         /\ \E i \in MutationsFor(sent, t) :
              Returned[t].result = MutationBody(sent[i].data, NullSubscription)

\* A transport call of register that ends without an answer from the remote
\* ends the call, rejected, with no request sent after it; and the remote is
\* as it was.
RejectionEndsCall ==
  (reg.op = "register" /\ reg'.pc = "rejected" /\ reg.pc # "rejected")
    => /\ reg'.error = HttpRequestError
       /\ sent' = sent
       /\ net' = { }
       /\ remote' = remote
       /\ reg.pc = "awaitCheck" => Mutations(sent') = { }

\* C31: when the transport rejects the check query, register rejects with that
\* error, sends no mutation and returns no outcome; when it rejects the
\* mutation, register rejects with that error; no transport call is made again
\* and no rejection is turned into an outcome with success = false.
C31_TransportRejectionPropagates ==
  /\ [](RejectedWithTransportError /\ FailureOutcomeCarriesBody)
  /\ [][RejectionEndsCall]_vars

\* A register call has been rejected on its mutation.
C31_Witness ==
  /\ reg.op = "register"
  /\ reg.pc = "rejected"
  /\ reg.error = HttpRequestError
  /\ Len(sent) = 2

\* A register call has been rejected on its check query.
C31_WitnessCheck ==
  /\ reg.op = "register"
  /\ reg.pc = "rejected"
  /\ reg.error = HttpRequestError
  /\ Len(sent) = 1

\* ------------------------------------ properties of registerAll's progress

\* The registerAll call under way waits on the transport.
RegisterAllWaits ==
  reg.op = "registerAll" /\ reg.pc \in { "awaitCheck", "awaitMutation" }

\* registerAll over n topics sends at most 2n requests.
AtMostTwoRequestsPerTopic ==
  reg.op = "registerAll" => Len(sent) <= 2 * Len(reg.topics)

\* While registerAll waits on the transport, the call moves and sends a
\* request only in a step in which the transport settles the request waited on.
OnlySettlementsAdvance ==
  (RegisterAllWaits /\ (reg' # reg \/ sent' # sent))
    => \E req \in net : req \notin net'

\* C32: registerAll over a table of n topics sends at most 2n requests and,
\* when every transport call settles, ends; while a transport call has not
\* settled the call neither ends nor sends a request.
C32_TerminationFollowsTransport ==
  /\ []AtMostTwoRequestsPerTopic
  /\ [][OnlySettlementsAdvance]_vars
  /\ RegisterAllWaits ~> (reg.pc \in { "returned", "rejected" })

\* registerAll over two topics has returned after four requests.
C32_Witness ==
  /\ reg.op = "registerAll"
  /\ reg.pc = "returned"
  /\ Len(reg.topics) = 2
  /\ Len(sent) = 4

\* The key each topic string normalizes to, written out: upper case, with "_"
\* for every "/".
NormalizedKey ==
  [ t \in TopicStrings |->
      IF t \in { << "o", "/", "c" >>, << "O", "_", "C" >> }
      THEN << "O", "_", "C" >>
      ELSE << "P", "_", "U" >> ]

\* The handler that ran is the one looked up under the normalized key, and its
\* arguments are that key, the domain header and the body of the request.
CalledWithNormalizedTopic ==
  \A i \in 1..Len(calls) :
    /\ request.topic \in TopicStrings
    /\ calls[i].topic = NormalizedKey[request.topic]
    /\ calls[i].handler = webhookEntry.webhookHandler
    /\ calls[i].shop_domain = request.domain
    /\ calls[i].body = request.body

\* Normalizing gives the written-out key, and normalizing a key changes nothing.
NormalizationIdempotent ==
  \A t \in TopicStrings :
    /\ GraphqlTopic(t) = NormalizedKey[t]
    /\ GraphqlTopic(GraphqlTopic(t)) = GraphqlTopic(t)

\* C33: the handler is invoked with the normalized topic (the header value in
\* upper case with every "/" replaced by "_", the key the handler was looked up
\* under), the shop-domain header value and the request body as received;
\* normalizing an already normalized topic gives the same key.
C33_HandlerGetsNormalizedTopic ==
  CalledWithNormalizedTopic /\ NormalizationIdempotent

\* A delivery of topic p/u with body y has reached the handler under P_U.
C33_Witness ==
  /\ Len(calls) = 1
  /\ request.topic = << "p", "/", "u" >>
  /\ request.body = << "y" >>
  /\ calls[1].topic = << "P", "_", "U" >>
  /\ calls[1].shop_domain = << "s" >>
  /\ calls[1].body = << "y" >>

\* A delivery whose topic header was already normalized has reached the handler
\* under the same key.
C33_WitnessNormalized ==
  /\ Len(calls) = 1
  /\ request.topic = << "O", "_", "C" >>
  /\ calls[1].topic = << "O", "_", "C" >>

\* The creating mutation a call issues for its topic.
CreateFor(frame) ==
  MutationRequest(frame.options.topic,
                  buildQuery(frame.options.topic, frame.address,
                             frame.options.deliveryMethod, Undefined))

\* The call saw no subscription in its check query's response and waits for
\* the creating mutation it then issued.
CreatesUnseen(frame, inFlight) ==
  /\ frame.pc = "awaitMutation"
  /\ frame.checkResult = << >>
  /\ CreateFor(frame) \in inFlight
  /\ CreateFor(frame).data.identifier.key = "topic"

\* The second call is not held back by the first: unless its delivery method
\* was refused it has sent its check query by the time it is first suspended.
SecondCallStartsAtOnce ==
  concurrent.reg.op = "register" =>
    \/ /\ concurrent.reg.pc = "rejected"
       /\ concurrent.reg.error # HttpRequestError
       /\ concurrent.sent = << >>
    \/ /\ concurrent.reg.pc \in { "awaitCheck", "awaitMutation", "returned",
                                  "rejected" }
       /\ Len(concurrent.sent) >= 1
       /\ concurrent.sent[1] =
            QueryRequest(concurrent.reg.options.topic,
                         buildCheckQuery(concurrent.reg.options.topic, apiVersion))

\* Whatever the other call is doing, a call whose check query showed no
\* subscription issues a creating mutation.
EachUnseenCreates ==
  /\ (reg.pc = "awaitMutation" /\ reg.checkResult = << >>)
       => CreatesUnseen(reg, net)
  /\ (concurrent.reg.pc = "awaitMutation" /\ concurrent.reg.checkResult = << >>)
       => CreatesUnseen(concurrent.reg, concurrent.net)

\* C34: two register calls for one topic running concurrently against a remote
\* without a subscription for it can both see no subscription in their check
\* responses and both issue a creating mutation: the second call sends its
\* check query while the first is suspended, and each call decides on its own
\* check response alone.
C34_ConcurrentCallsBothCreate ==
  SecondCallStartsAtOnce /\ EachUnseenCreates

\* The interleaving: both check queries were answered before either mutation
\* was applied, and both calls wait for a creating mutation for the topic.
C34_Witness ==
  /\ CreatesUnseen(reg, net)
  /\ CreatesUnseen(concurrent.reg, concurrent.net)
  /\ reg.options.topic = concurrent.reg.options.topic
  /\ remote[reg.options.topic] = << >>

\* Both creating mutations were applied: the topic has two subscriptions.
C34_WitnessTwice ==
  /\ reg.pc = "returned"
  /\ concurrent.reg.pc = "returned"
  /\ reg.options.topic = concurrent.reg.options.topic
  /\ reg.checkResult = << >>
  /\ concurrent.reg.checkResult = << >>
  /\ Len(remote[reg.options.topic]) = 2

\* The topics registerAll listed when it was called.
Listed == { reg.topics[i] : i \in 1..Len(reg.topics) }

\* The address register builds from a path for a delivery method.
AddressFromPath(path, deliveryMethod) ==
  IF deliveryMethod = Http THEN << "https://", HOST_NAME >> \o Parts(path)
  ELSE Parts(path)

\* registerAll lists the table's topics when it is called and keeps the list.
ListedAtCall ==
  /\ (reg.op # "registerAll" /\ reg'.op = "registerAll")
       => { reg'.topics[i] : i \in 1..Len(reg'.topics) } = DOMAIN webhookRegistry
  /\ (reg.op = "registerAll" /\ reg'.op = "registerAll")
       => reg'.topics = reg.topics

\* Requests and outcomes of a registerAll call are about listed topics only,
\* and a call that returned has an outcome for every listed topic.
OnlyListedRegistered ==
  reg.op = "registerAll" =>
    /\ \A i \in 1..Len(sent) : sent[i].topic \in Listed
    /\ DOMAIN reg.allReturn \subseteq Listed
    /\ reg.pc = "returned" => DOMAIN reg.allReturn = Listed

\* When registerAll reaches a topic it registers the path the table holds for
\* the topic then: the check query goes out with the address built from it.
PathReadWhenReached ==
  ( /\ reg'.op = "registerAll"
    /\ Len(sent') > Len(sent)
    /\ sent'[Len(sent')].kind = "query" )
  => /\ reg'.options.topic = reg'.topics[reg'.index]
     /\ sent'[Len(sent')].topic = reg'.options.topic
     /\ reg'.options.path = webhookRegistry[reg'.options.topic].path
     /\ reg'.address = AddressFromPath(reg'.options.path, reg'.options.deliveryMethod)

\* The mutation for the topic being registered carries the address built when
\* the topic was reached.
MutationCarriesAddress ==
  ( /\ reg'.op = "registerAll"
    /\ Len(sent') > Len(sent)
    /\ sent'[Len(sent')].kind = "mutation" )
  => /\ reg'.address = reg.address
     /\ sent'[Len(sent')] =
          MutationRequest(reg.options.topic,
                          buildQuery(reg.options.topic, reg.address,
                                     reg.options.deliveryMethod, reg'.webhookId))

\* C35: registerAll registers exactly the topics that were in the handler table
\* when it was called. A topic added while the call is suspended gets no check
\* query, no mutation and no outcome in the call; a path written for a listed
\* topic before the call reaches it is the path the call registers.
C35_RegisterAllListsOnce ==
  /\ []OnlyListedRegistered
  /\ [][ListedAtCall]_vars
  /\ [][PathReadWhenReached]_vars
  /\ [][MutationCarriesAddress]_vars

\* registerAll has returned; the table holds a topic added during the call,
\* which the call sent nothing for and has no outcome for.
C35_Witness ==
  /\ reg.op = "registerAll"
  /\ reg.pc = "returned"
  /\ Listed # { }
  /\ \E t \in DOMAIN webhookRegistry \ Listed :
       /\ t \notin DOMAIN reg.allReturn
       /\ \A i \in 1..Len(sent) : sent[i].topic # t

\* registerAll has sent the mutation for its second topic with the address of
\* /hooks, a path the table can only hold by an add made during the call.
C35_WitnessOverwritten ==
  /\ reg.op = "registerAll"
  /\ reg.index = 2
  /\ reg.pc = "awaitMutation"
  /\ reg.options.deliveryMethod = Http
  /\ reg.options.path = "/hooks"
  /\ \E i \in 1..Len(sent) :
       /\ sent[i].kind = "mutation"
       /\ sent[i].topic = reg.topics[2]
       /\ sent[i].data.webhookSubscription.callbackUrl
            = << "https://", HOST_NAME, "/hooks" >>

\* The fetch call under way is the last the budget allows.
BudgetExhausted == rest.pc = "awaitFetch" /\ rest.count > rest.maxRetries

\* The message of the Error thrown after the last attempt: the client's name
\* first, the number of retries when there were any, the fetch error's message
\* last.
StatesRetries(message, maxRetries) ==
  /\ message[1] = CLIENT
  /\ message[Len(message)] = FetchError.message
  /\ IF maxRetries > 0
     THEN /\ Len(message) = 6
          /\ message[3] = "Attempted maximum number of "
          /\ message[4] = ToString(maxRetries)
          /\ message[5] = " network retries. Last message - "
     ELSE Len(message) = 3

\* How the last attempt ends the fetch loop: a response, retriable or not, is
\* returned; a throw of fetch becomes the Error; there is no further attempt.
\* An attempt that is not the last never makes the loop throw.
LastAttemptEnds ==
  (rest.pc = "awaitFetch" /\ Len(fetches') > Len(fetches)) =>
    LET how == fetches'[Len(fetches')]
    IN  /\ BudgetExhausted =>
             /\ rest'.pc # "sleeping"
             /\ ~how.threw =>
                  /\ rest'.pc = (IF rest.op = "client" THEN "returned"
                                                       ELSE "awaitText")
                  /\ rest'.response = how.response
                  /\ rest'.error = NoError
             /\ how.threw =>
                  /\ rest'.pc = "rejected"
                  /\ rest'.error.name = "Error"
                  /\ StatesRetries(rest'.error.message, rest.maxRetries)
        /\ rest'.pc = "rejected" => (how.threw /\ BudgetExhausted)

C36_WitnessThrown ==
  /\ rest.pc = "rejected"
  /\ Len(fetches) = 3
  /\ fetches[3].threw
  /\ rest.error.name = "Error"
  /\ rest.error.message =
       << CLIENT, ": ", "Attempted maximum number of ", "2",
          " network retries. Last message - ", "fetch failed" >>

\* The retry budget request() hands to the fetch loop, which is called with
\* the budget + 1.
BudgetUsed == rest.maxRetries - 1

\* C37: a request of the REST client that does not specify retries uses the
\* retries option the client was created with, and a request that specifies
\* retries uses its own value.
C37_ClientRetriesWhenUnspecified ==
  (rest.op = "client" /\ rest.pc # "idle") =>
    BudgetUsed = (IF rest.retries = NotPassed THEN rest.clientRetries
                                              ELSE rest.retries[1])

\* What holds of the budget: the request's own retries, and 0 without them,
\* whatever retries option the client was created with.
OwnRetriesOrZero ==
  (rest.op = "client" /\ rest.pc # "idle") =>
    BudgetUsed = (IF rest.retries = NotPassed THEN 0 ELSE rest.retries[1])

\* A request without retries of a client created with retries = 2 has ended
\* after two fetch calls that were both abandoned.
UnspecifiedIgnoresClientRetries ==
  /\ rest.op = "client"
  /\ rest.retries = NotPassed
  /\ rest.clientRetries = 2
  /\ rest.pc = "rejected"
  /\ Len(fetches) = 2

\* ------------------------------------- properties of the token exchange

\* The call under way has ended.
ExchangeEnded == exchange.pc \in { "returned", "rejected" }

\* C38: tokenExchange issues its access-token request only after the session
\* token has been decoded: a call whose decoding failed has rejected with no
\* request issued and no session created, and every other call issues exactly
\* one request and creates exactly one session from its response.
C38_OneRequestOneSessionAfterDecoding ==
  /\ posted # << >> => exchange.decoded
  /\ ExchangeEnded =>
       IF ~exchange.decoded
       THEN /\ exchange.pc = "rejected"
            /\ posted = << >>
            /\ sessions = << >>
       ELSE /\ Len(posted) = 1
            /\ Len(sessions) = 1
            /\ sessions[1].shop = exchange.cleanShop

\* C38, amended: the request is issued only after the session token has been
\* decoded, and at most once; a call whose decoding failed has rejected with no
\* request and no session; a call whose shop sanitizeShop accepted has issued
\* exactly one request; a session is created only by a call that returns, one
\* session, from the response of that request, and a call whose request or
\* whose reading of the response body failed has rejected with no session.
C38_RequestAfterDecodingAtMostOnce ==
  /\ posted # << >> => exchange.decoded
  /\ Len(posted) <= 1
  /\ Len(sessions) <= 1
  /\ (ExchangeEnded /\ ~exchange.decoded) =>
       /\ exchange.pc = "rejected"
       /\ posted = << >>
       /\ sessions = << >>
  /\ (exchange.decoded /\ ~sanitizeShop(exchange.shop).threw) => Len(posted) = 1
  /\ (exchange.decoded /\ sanitizeShop(exchange.shop).threw) =>
       /\ exchange.pc = "rejected"
       /\ posted = << >>
  /\ exchange.pc = "returned" <=> sessions # << >>
  /\ sessions # << >> =>
       /\ Len(posted) = 1
       /\ exchange.session = sessions
       /\ sessions[1].shop = exchange.cleanShop
       /\ sessions[1].accessTokenResponse \in AccessTokenResponses

\* A call has returned the one session made from the response of its one
\* request.
C38_Witness ==
  /\ exchange.pc = "returned"
  /\ exchange.decoded
  /\ Len(posted) = 1
  /\ Len(sessions) = 1

\* A call has rejected on the decoding of its session token.
C38_WitnessNotDecoded ==
  /\ exchange.pc = "rejected"
  /\ ~exchange.decoded
  /\ exchange.error = InvalidJwtError
  /\ posted = << >>

\* A call whose request was rejected: one request, no session.
C38_WitnessRequestFailed ==
  /\ exchange.pc = "rejected"
  /\ exchange.error = FetchRejected
  /\ Len(posted) = 1
  /\ sessions = << >>

\* The JSON text of the body: client id and secret, grant type, the session
\* token as subject_token with its type, the requested token type.
CredentialsJson ==
  << "{", "client_id", ":", apiKey, ",",
     "client_secret", ":", apiSecretKey, ",",
     "grant_type", ":", "urn:ietf:params:oauth:grant-type:token-exchange", ",",
     "subject_token", ":", exchange.sessionToken, ",",
     "subject_token_type", ":", "urn:ietf:params:oauth:token-type:id_token", ",",
     "requested_token_type", ":", exchange.requestedTokenType, "}" >>

\* The request goes to the sanitized shop's access-token address with the
\* credentials as its JSON body.
PostedCarriesCredentials ==
  \A i \in 1..Len(posted) :
    /\ posted[i].url = << "https://", exchange.cleanShop, "/admin/oauth/access_token" >>
    /\ posted[i].init.body = CredentialsJson
    /\ posted[i].init.headers.ContentType = "application/json"

\* C39: the request tokenExchange sends to
\* https://<sanitized shop>/admin/oauth/access_token is an HTTP POST carrying
\* the JSON body with the client credentials, the session token as
\* subject_token and the requested token type.
C39_RequestIsPostWithCredentials ==
  /\ PostedCarriesCredentials
  /\ \A i \in 1..Len(posted) : FetchMethod(posted[i].init) = "POST"

\* The request has been issued: its RequestInit names no method, so that it is
\* a GET with a body.
PostedWithoutMethod ==
  /\ Len(posted) = 1
  /\ "method" \notin DOMAIN posted[1].init
  /\ FetchMethod(posted[1].init) = "GET"
  /\ posted[1].init.body # << >>

====
